---- MODULE Spec2Model ----
(***************************************************************************)
(* Verification model of the PCS invoice pipeline:                         *)
(*   - epic_parser.py        OCR line clustering, header fields, total,    *)
(*                           and the line-item reconstructor               *)
(*   - due_date_extractor.py explicit / relative due dates                 *)
(*   - vendor_router.py      hinted and trial vendor detection             *)
(*   - email_ingestion_agent.py, the Patterson parser, the queue writer,   *)
(*     the upload service and flowstack_orchestrator.py                    *)
(* Strings are Python strings, handled character by character: every       *)
(* regular expression and substring test of the source is an operator      *)
(* below that scans the text exactly as the `re` call does.                *)
(***************************************************************************)
EXTENDS Integers, Sequences, FiniteSets, TLC

VARIABLES
    pc,          \* epic_parser: position inside extract_invoice_data
    ocr,         \* epic_parser: ocr_data, a sequence of [text, top, conf]
    lines,       \* epic_parser: group_by_lines result, [y, idx] records ascending in y
    result,      \* epic_parser: the result dict (header fields and total)
    bounds,      \* epic_parser: [start |-> line_items_start_y, end |-> line_items_end_y]
    cands,       \* epic_parser: all_relevant_lines, product_lines and the three classes
    processed,   \* epic_parser: processed_products, a set of key strings
    line_items,  \* epic_parser: line_items, a sequence of LineItem records
    emitted,     \* epic_parser: per LineItem, the pass, key, line and text that produced it
    dd,          \* due_date_extractor: [pc, text, invoice_date, result, due_date]
    vr,          \* vendor_router: argv, the loop index, the parsers tried, stdout, exit code
    em,          \* email_ingestion_agent: [pc, msg, vendor] of detect_vendor_from_email
    cli,         \* epic_parser main: [pc, exists, code, artifact, stdout]
    pt,          \* patterson parser: [pc, text, record, missing, code, stdout, artifact]
    qw,          \* invoice_queue_writer: [queue, calls], the queue file and the calls made
    runs,        \* epic_parser: [n, seed, first], the run in progress on the same tokens,
                 \* the hash seed of its process, and what the first run produced
    sh,          \* invoice_queue.json shared by the queue writer and the upload service:
                 \* the file, each process's position and loaded copy, what each has saved
    orch         \* flowstack_orchestrator: main's position, the processes dict, each
                 \* monitor thread's process, and the component processes alive

vars ==
    <<pc, ocr, lines, result, bounds, cands, processed, line_items, emitted, dd, vr, em, cli,
      pt, qw, runs, sh, orch>>

\* the state of the programs beside epic_parser, due_date_extractor and vendor_router
otherVars == <<em, cli, pt, qw, runs, sh, orch>>

epicVars == <<pc, ocr, lines, result, bounds, cands, processed, line_items, emitted>>

(***************************************************************************)
(* Python values                                                           *)
(***************************************************************************)
\* Python's None where a string is expected
None == "<None>"

\* Python's None where a vertical position is expected (positions are >= 0)
NoY == -1

Abs(n) == IF n < 0 THEN -n ELSE n

(***************************************************************************)
(* str methods                                                             *)
(***************************************************************************)
\* s[i:j] clamped to the string, 1-based and inclusive
Slice(s, i, j) ==
    LET a == IF i < 1 THEN 1 ELSE i
        b == IF j > Len(s) THEN Len(s) ELSE j
    IN  IF a > b THEN "" ELSE SubSeq(s, a, b)

\* the character at position i ("" outside the string)
Ch(s, i) == Slice(s, i, i)

DigitChars == {"0", "1", "2", "3", "4", "5", "6", "7", "8", "9"}

IsDigitAt(s, i) == i >= 1 /\ i <= Len(s) /\ Ch(s, i) \in DigitChars

\* s[i:] in Python terms, 1-based
From(s, i) == Slice(s, i, Len(s))

StartsWith(s, p) == Len(s) >= Len(p) /\ SubSeq(s, 1, Len(p)) = p

\* `sub in s`
Contains(s, sub) ==
    \E i \in 1..(Len(s) - Len(sub) + 1) : SubSeq(s, i, i + Len(sub) - 1) = sub

LowerChar(c) ==
    CASE c = "A" -> "a" [] c = "B" -> "b" [] c = "C" -> "c" [] c = "D" -> "d"
      [] c = "E" -> "e" [] c = "F" -> "f" [] c = "G" -> "g" [] c = "H" -> "h"
      [] c = "I" -> "i" [] c = "J" -> "j" [] c = "K" -> "k" [] c = "L" -> "l"
      [] c = "M" -> "m" [] c = "N" -> "n" [] c = "O" -> "o" [] c = "P" -> "p"
      [] c = "Q" -> "q" [] c = "R" -> "r" [] c = "S" -> "s" [] c = "T" -> "t"
      [] c = "U" -> "u" [] c = "V" -> "v" [] c = "W" -> "w" [] c = "X" -> "x"
      [] c = "Y" -> "y" [] c = "Z" -> "z" [] OTHER -> c

RECURSIVE Lower(_)
Lower(s) == IF s = "" THEN "" ELSE LowerChar(Ch(s, 1)) \o Lower(From(s, 2))

IsSpace(c) == c \in {" ", "\n", "\t"}

RECURSIVE LStrip(_)
LStrip(s) == IF s # "" /\ IsSpace(Ch(s, 1)) THEN LStrip(From(s, 2)) ELSE s

RECURSIVE RStrip(_)
RStrip(s) ==
    IF s # "" /\ IsSpace(Ch(s, Len(s))) THEN RStrip(SubSeq(s, 1, Len(s) - 1)) ELSE s

Strip(s) == RStrip(LStrip(s))

\* sep.join(ws)
RECURSIVE Join(_, _)
Join(ws, sep) ==
    IF Len(ws) = 0 THEN ""
    ELSE IF Len(ws) = 1 THEN ws[1]
    ELSE ws[1] \o sep \o Join(Tail(ws), sep)

\* the first position >= i of s holding a whitespace character, or Len(s)+1
RECURSIVE WordEnd(_, _)
WordEnd(s, i) == IF i > Len(s) \/ IsSpace(Ch(s, i)) THEN i ELSE WordEnd(s, i + 1)

\* s.split(): the maximal runs of non-whitespace characters
RECURSIVE Split(_)
Split(s) ==
    LET t == LStrip(s)
        e == WordEnd(t, 1)
    IN  IF t = "" THEN <<>> ELSE <<SubSeq(t, 1, e - 1)>> \o Split(From(t, e))

\* s.replace(c, r) for a one-character c
RECURSIVE Replace(_, _, _)
Replace(s, c, r) ==
    IF s = "" THEN ""
    ELSE (IF Ch(s, 1) = c THEN r ELSE Ch(s, 1)) \o Replace(From(s, 2), c, r)

\* str(n) for n >= 0
RECURSIVE Str(_)
Str(n) ==
    LET d == <<"0", "1", "2", "3", "4", "5", "6", "7", "8", "9">>[(n % 10) + 1]
    IN  IF n < 10 THEN d ELSE Str(n \div 10) \o d

\* s.isdigit() for the ASCII words of the model
IsDigitStr(s) == s # "" /\ \A i \in 1..Len(s) : Ch(s, i) \in DigitChars

(***************************************************************************)
(* Regular expressions of epic_parser.py.  A match of \d+ is the whole     *)
(* digit run: the character after it is required to be a non-digit, so no  *)
(* shorter run can match either.                                           *)
(***************************************************************************)
\* the last position of the digit run that starts at i (i-1: no digit at i)
RECURSIVE DigitRunEnd(_, _)
DigitRunEnd(s, i) == IF IsDigitAt(s, i) THEN DigitRunEnd(s, i + 1) ELSE i - 1

\* \d+[seps]\d{2} matched at position i: the position of its last character, 0 if none
NumEnd(s, i, seps) ==
    LET j == DigitRunEnd(s, i)
    IN  IF j >= i /\ j + 3 <= Len(s) /\ Ch(s, j + 1) \in seps
           /\ IsDigitAt(s, j + 2) /\ IsDigitAt(s, j + 3)
        THEN j + 3 ELSE 0

\* re.match(r'\d+[,.]\d{2}', word)
MatchQty(word) == NumEnd(word, 1, {",", "."}) > 0

\* re.match(r'\d+\.\d{2}', word)
MatchAmount(word) == NumEnd(word, 1, {"."}) > 0

\* re.match(r'\$\d+\.\d{2}', word)
MatchDollar(word) == StartsWith(word, "$") /\ NumEnd(word, 2, {"."}) > 0

\* re.search(r'\d+\.\d{2}', text)
SearchAmount(text) == \E i \in 1..Len(text) : NumEnd(text, i, {"."}) > 0

\* re.search(r'\$(\d+\.\d{2})', text): group(1), or None
DollarPositions(text) ==
    {i \in 1..Len(text) : Ch(text, i) = "$" /\ NumEnd(text, i + 1, {"."}) > 0}

SearchDollar(text) ==
    LET ps == DollarPositions(text)
    IN  IF ps = {} THEN None
        ELSE LET i == CHOOSE p \in ps : \A q \in ps : p <= q
             IN  SubSeq(text, i + 1, NumEnd(text, i + 1, {"."}))

\* re.search(r'^(\d+[,.]\d{2})', text.strip()): group(1), or None
SearchLeadingQty(text) ==
    LET t == Strip(text)
        e == NumEnd(t, 1, {",", "."})
    IN  IF e > 0 THEN SubSeq(t, 1, e) ELSE None

\* \d{1,2}/ matched at position i: the position of the "/", 0 if none
DayEnd(s, i) ==
    IF IsDigitAt(s, i) /\ IsDigitAt(s, i + 1) /\ i + 2 <= Len(s) /\ Ch(s, i + 2) = "/"
    THEN i + 2
    ELSE IF IsDigitAt(s, i) /\ i + 1 <= Len(s) /\ Ch(s, i + 1) = "/" THEN i + 1
    ELSE 0

\* \d{1,2}/\d{1,2}/\d{4} matched at position i: the position of its last character, 0 if none
DateEnd(s, i) ==
    LET a == DayEnd(s, i)
        b == IF a > 0 THEN DayEnd(s, a + 1) ELSE 0
    IN  IF b > 0 /\ IsDigitAt(s, b + 1) /\ IsDigitAt(s, b + 2)
           /\ IsDigitAt(s, b + 3) /\ IsDigitAt(s, b + 4)
        THEN b + 4 ELSE 0

\* re.match(r'\d{1,2}/\d{1,2}/\d{4}', word)
MatchDate(word) == DateEnd(word, 1) > 0

\* re.search(r'\d{1,2}/\d{1,2}/\d{4}', text): group(0), or None
SearchDate(text) ==
    LET ps == {i \in 1..Len(text) : DateEnd(text, i) > 0}
    IN  IF ps = {} THEN None
        ELSE LET i == CHOOSE p \in ps : \A q \in ps : p <= q
             IN  SubSeq(text, i, DateEnd(text, i))

\* re.search(r'\$\(\d+\.\d{2}\)', text) or re.search(r'-\$\d+\.\d{2}', text)
SearchDiscount(text) ==
    \/ \E i \in 1..Len(text) :
          /\ Slice(text, i, i + 1) = "$("
          /\ NumEnd(text, i + 2, {"."}) > 0
          /\ NumEnd(text, i + 2, {"."}) < Len(text)
          /\ Ch(text, NumEnd(text, i + 2, {"."}) + 1) = ")"
    \/ \E i \in 1..Len(text) :
          Slice(text, i, i + 1) = "-$" /\ NumEnd(text, i + 2, {"."}) > 0

\* float(word) succeeds, for a word that begins \d+\.\d{2}: digits, a point, digits
\* (the exponent, underscore and padded forms float() also reads do not occur in
\* the words of the model)
FloatOK(word) ==
    LET j == DigitRunEnd(word, 1)
    IN  /\ j >= 1 /\ j < Len(word) /\ Ch(word, j + 1) = "."
        /\ \A k \in (j + 2)..Len(word) : Ch(word, k) \in DigitChars

\* int(s) for a string of digits
RECURSIVE IntOf(_)
IntOf(s) ==
    IF s = "" THEN 0
    ELSE 10 * IntOf(SubSeq(s, 1, Len(s) - 1))
         + (CHOOSE d \in 0..9 : Str(d) = Ch(s, Len(s)))

\* 10 <= float(word) <= 1000, for a word FloatOK accepts
InInvoiceRange(word) ==
    LET j == DigitRunEnd(word, 1)
        whole == IntOf(SubSeq(word, 1, j))
        frac == SubSeq(word, j + 2, Len(word))
    IN  /\ whole >= 10
        /\ \/ whole < 1000
           \/ whole = 1000 /\ \A k \in 1..Len(frac) : Ch(frac, k) = "0"

(***************************************************************************)
(* epic_parser.py: line clustering                                         *)
(***************************************************************************)
Y_TOLERANCE == 15

CONF_DISCARD == 30

\* " ".join(ocr_data['text'][i] for i in indices)
LineText(o, idx) == Join([k \in 1..Len(idx) |-> o[idx[k]].text], " ")

\* a variant that takes the cluster created last among those within the tolerance
FirstNear_Last(ls, y) ==
    LET ks == {k \in 1..Len(ls) : Abs(y - ls[k].y) <= Y_TOLERANCE}
    IN  IF ks = {} THEN 0 ELSE CHOOSE k \in ks : \A m \in ks : k >= m

\* the first cluster, in creation order, whose key is within the tolerance of y (0: none)
FirstNear(ls, y) ==
    LET ks == {k \in 1..Len(ls) : Abs(y - ls[k].y) <= Y_TOLERANCE}
    IN  IF ks = {} THEN 0 ELSE CHOOSE k \in ks : \A m \in ks : k <= m

\* the loop of group_by_lines over the tokens i..len, ls being the dict built so far
RECURSIVE Cluster(_, _, _)
Cluster(o, i, ls) ==
    IF i > Len(o) THEN ls
    ELSE LET k == FirstNear(ls, o[i].top)
         IN  IF Strip(o[i].text) = "" \/ o[i].conf < CONF_DISCARD
             THEN Cluster(o, i + 1, ls)
             ELSE IF k > 0
             THEN Cluster(o, i + 1, [ls EXCEPT ![k].idx = Append(@, i)])
             ELSE Cluster(o, i + 1, Append(ls, [y |-> o[i].top, idx |-> <<i>>]))

\* sorted(lines.items()): the keys are distinct, so the order is that of y
RECURSIVE SortByY(_)
SortByY(ls) ==
    IF Len(ls) <= 1 THEN ls
    ELSE LET m == CHOOSE k \in 1..Len(ls) : \A j \in 1..Len(ls) : ls[k].y <= ls[j].y
             rest == [j \in 1..(Len(ls) - 1) |-> IF j < m THEN ls[j] ELSE ls[j + 1]]
         IN  <<ls[m]>> \o SortByY(rest)

group_by_lines(o) == SortByY(Cluster(o, 1, <<>>))

(***************************************************************************)
(* epic_parser.py: header fields                                           *)
(***************************************************************************)
\* " ".join(ocr_data['text']).lower() holds one of the Epic keywords
IsEpic(o) ==
    LET all_text == Lower(Join([k \in 1..Len(o) |-> o[k].text], " "))
    IN  \E kw \in {"epic dental lab", "epic dental", "epic lab"} : Contains(all_text, kw)

\* the test that makes a word the invoice number
IsInvoiceNumber(word) ==
    /\ \/ StartsWith(word, "#") /\ IsDigitStr(From(word, 2))
       \/ IsDigitStr(word)
    /\ Len(word) >= 4
    /\ ~ \E c \in {"-", ".", "/"} : Contains(word, c)

\* the loop over ocr_data['text'] from token i on, date being the invoice_date so far
RECURSIVE ScanWords(_, _, _)
ScanWords(o, i, date) ==
    IF i > Len(o) THEN [invoice_number |-> "", invoice_date |-> date]
    ELSE LET word == Strip(o[i].text)
         IN  IF word = "" THEN ScanWords(o, i + 1, date)
             ELSE IF IsInvoiceNumber(word)
             THEN [invoice_number |-> Replace(word, "#", ""), invoice_date |-> date]
             ELSE ScanWords(o, i + 1, IF MatchDate(word) THEN word ELSE date)

\* the first line whose text holds a date: that date, or "" when no line does
RECURSIVE DateInLines(_, _, _)
DateInLines(o, ls, k) ==
    IF k > Len(ls) THEN ""
    ELSE LET d == SearchDate(LineText(o, ls[k].idx))
         IN  IF d # None THEN d ELSE DateInLines(o, ls, k + 1)

\* the first word of the line that is one of the two office names ("" if none)
RECURSIVE OfficeWord(_, _, _)
OfficeWord(o, idx, k) ==
    IF k > Len(idx) THEN ""
    ELSE IF Strip(o[idx[k]].text) \in {"Riddle", "Roseburg"} THEN Strip(o[idx[k]].text)
    ELSE OfficeWord(o, idx, k + 1)

\* the "customer id" loop: every such line with an office word overwrites the field
RECURSIVE OfficeFromCustomerId(_, _, _, _)
OfficeFromCustomerId(o, ls, k, office) ==
    IF k > Len(ls) THEN office
    ELSE LET w == IF Contains(Lower(LineText(o, ls[k].idx)), "customer id")
                  THEN OfficeWord(o, ls[k].idx, 1) ELSE ""
         IN  OfficeFromCustomerId(o, ls, k + 1, IF w # "" THEN w ELSE office)

\* the broader loop: the first line naming an office in any case and holding the exact word
RECURSIVE OfficeFromAnyLine(_, _, _)
OfficeFromAnyLine(o, ls, k) ==
    IF k > Len(ls) THEN ""
    ELSE LET t == Lower(LineText(o, ls[k].idx))
             w == IF Contains(t, "roseburg") \/ Contains(t, "riddle")
                  THEN OfficeWord(o, ls[k].idx, 1) ELSE ""
         IN  IF w # "" THEN w ELSE OfficeFromAnyLine(o, ls, k + 1)

ExtractHeaderFields(o, ls) ==
    LET w == ScanWords(o, 1, "")
        date == IF w.invoice_date = "" THEN DateInLines(o, ls, 1) ELSE w.invoice_date
        off == OfficeFromCustomerId(o, ls, 1, "")
    IN  [invoice_number |-> w.invoice_number,
         invoice_date |-> date,
         office_location |-> IF off = "" THEN OfficeFromAnyLine(o, ls, 1) ELSE off]

(***************************************************************************)
(* epic_parser.py: total                                                   *)
(***************************************************************************)
\* a line the first total loop reads: a total marker and no "extended"
IsTotalMarkerLine(text) ==
    LET t == Lower(text)
    IN  /\ Contains(t, "total") \/ Contains(t, "amount due") \/ Contains(t, "balance due")
        /\ ~ Contains(t, "extended")

\* the first amount word of a marker line, as the loop stores it (None: no such word)
RECURSIVE MarkerAmount(_, _, _)
MarkerAmount(o, idx, k) ==
    IF k > Len(idx) THEN None
    ELSE LET word == o[idx[k]].text
         IN  IF MatchDollar(word) THEN Replace(word, "$", "")
             ELSE IF MatchAmount(word) /\ FloatOK(word) THEN word
             ELSE MarkerAmount(o, idx, k + 1)

\* the first marker line, in ascending y, that yields an amount
RECURSIVE TotalFromMarkers(_, _, _)
TotalFromMarkers(o, ls, k) ==
    IF k > Len(ls) THEN None
    ELSE LET a == IF IsTotalMarkerLine(LineText(o, ls[k].idx))
                  THEN MarkerAmount(o, ls[k].idx, 1) ELSE None
         IN  IF a # None THEN a ELSE TotalFromMarkers(o, ls, k + 1)

\* the words of the fallback loop whose float() raises: a "$" amount with a tail
FallbackRaises(o, ls) ==
    \E k \in 1..Len(ls) : \E j \in 1..Len(ls[k].idx) :
        LET word == o[ls[k].idx[j]].text
        IN  MatchDollar(word) /\ ~ FloatOK(Replace(word, "$", ""))

\* the first word of a line that the fallback loop appends to dollar_amounts
RECURSIVE FallbackAmount(_, _, _)
FallbackAmount(o, idx, k) ==
    IF k > Len(idx) THEN None
    ELSE LET word == o[idx[k]].text
         IN  IF MatchDollar(word) THEN Replace(word, "$", "")
             ELSE IF MatchAmount(word) /\ FloatOK(word) /\ InInvoiceRange(word) THEN word
             ELSE FallbackAmount(o, idx, k + 1)

\* dollar_amounts sorted by y, greatest first (a stable sort): its first element is the
\* first amount of the lowest line that has one
RECURSIVE TotalFromLowest(_, _, _)
TotalFromLowest(o, ls, k) ==
    IF k < 1 THEN None
    ELSE LET a == FallbackAmount(o, ls[k].idx, 1)
         IN  IF a # None THEN a ELSE TotalFromLowest(o, ls, k - 1)

\* the discount scan; both of its outcomes store "0.00"
DiscountFound(o, ls) == \E k \in 1..Len(ls) : SearchDiscount(LineText(o, ls[k].idx))

TotalDefault(o, ls) == IF DiscountFound(o, ls) THEN "0.00" ELSE "0.00"

\* result['total'] after the two loops, the default and the special case of invoice 5418
FindTotal(o, ls, invoice_number) ==
    LET m == TotalFromMarkers(o, ls, 1)
        total_amount == IF m # None THEN m ELSE TotalFromLowest(o, ls, Len(ls))
    IN  IF invoice_number = "5418" THEN "0.00"
        ELSE IF total_amount # None THEN total_amount
        ELSE TotalDefault(o, ls)

\* the fallback loop runs, and raises, only when no marker line gave a total
TotalRaises(o, ls) == TotalFromMarkers(o, ls, 1) = None /\ FallbackRaises(o, ls)

(***************************************************************************)
(* epic_parser.py: bounds of the item table                                *)
(***************************************************************************)
IsTableHeader(text) ==
    LET t == Lower(text)
    IN  \E kw \in {"qty", "quantity", "product", "tooth", "item"} : Contains(t, kw)

IsTableEnd(text) ==
    LET t == Lower(text)
    IN  Contains(t, "extended amount") \/ Contains(t, "total")

\* the marker loop from line k on: the last header line before the first end line
RECURSIVE MarkerBounds(_, _, _, _)
MarkerBounds(o, ls, k, start) ==
    IF k > Len(ls) THEN [start |-> start, end |-> NoY]
    ELSE LET text == LineText(o, ls[k].idx)
             st == IF IsTableHeader(text) THEN ls[k].y ELSE start
         IN  IF IsTableEnd(text) THEN [start |-> st, end |-> ls[k].y]
             ELSE MarkerBounds(o, ls, k + 1, st)

\* first fallback: a line with an amount whose words hold a quantity and a price
StartsByContent(text) ==
    /\ SearchAmount(text)
    /\ LET words == Split(text)
       IN  /\ \E j \in 1..Len(words) : IsDigitAt(words[j], 1)
           /\ \E j \in 1..Len(words) : MatchAmount(words[j])

\* the y of the first line satisfying P (NoY: none)
FirstLineOf(ls, ks) ==
    IF ks = {} THEN NoY ELSE ls[CHOOSE k \in ks : \A m \in ks : k <= m].y

HasDollar(text) == SearchDollar(text) # None

FindBounds(o, ls) ==
    LET mb == MarkerBounds(o, ls, 1, NoY)
        byContent ==
            FirstLineOf(ls, {k \in 1..Len(ls) : StartsByContent(LineText(o, ls[k].idx))})
        byDollar == FirstLineOf(ls, {k \in 1..Len(ls) : HasDollar(LineText(o, ls[k].idx))})
    IN  [start |-> IF mb.start # NoY THEN mb.start
                   ELSE IF byContent # NoY THEN byContent ELSE byDollar,
         end |-> mb.end]

(***************************************************************************)
(* epic_parser.py: candidate lines and their classes                       *)
(***************************************************************************)
NEAR_PX == 100

PAIR_PX == 200

PAIR_CLOSE_PX == 50

CONTINUATION_PX == 30

\* a line of all_relevant_lines / product_lines
Rel(y, o, idx) == [y |-> y, text |-> LineText(o, idx), idx |-> idx]

\* the loop that fills all_relevant_lines, from line k on
RECURSIVE RelevantAfterStart(_, _, _, _)
RelevantAfterStart(o, ls, k, b) ==
    IF k > Len(ls) THEN <<>>
    ELSE IF b.end # NoY /\ ls[k].y >= b.end THEN <<>>
    ELSE IF ls[k].y <= b.start \/ Strip(LineText(o, ls[k].idx)) = ""
    THEN RelevantAfterStart(o, ls, k + 1, b)
    ELSE <<Rel(ls[k].y, o, ls[k].idx)>> \o RelevantAfterStart(o, ls, k + 1, b)

\* lines.get(line_items_start_y, [])
IndicesAt(ls, y) ==
    LET ks == {k \in 1..Len(ls) : ls[k].y = y}
    IN  IF ks = {} THEN <<>> ELSE ls[CHOOSE k \in ks : TRUE].idx

\* all_relevant_lines: the start line first, then the lines strictly between the bounds
all_relevant_lines(o, ls, b) ==
    LET startIdx == IndicesAt(ls, b.start)
    IN  (IF Strip(LineText(o, startIdx)) # "" THEN <<Rel(b.start, o, startIdx)>> ELSE <<>>)
        \o RelevantAfterStart(o, ls, 1, b)

product_keywords ==
    {"process", "fud", "lrpd", "urpd", "framework", "wax", "rim", "teeth", "set", "up",
     "lower", "upper", "finish", "id", "tag", "at", "oe", "acrylic"}

skip_headers ==
    {"product id", "qty", "tooth", "ices", "| to", "extended", "invoice subtotal", "teeth"}

IsProductLine(text) ==
    LET t == Lower(text)
    IN  /\ \E kw \in product_keywords : Contains(t, kw)
        /\ Len(Strip(text)) > 3
        /\ ~ \E h \in skip_headers : Contains(t, h)

\* a variant of the sort that is not stable: among lines of equal length the order
\* follows the hash seed of the process
RECURSIVE SortByLength_HashOrder(_)
SortByLength_HashOrder(rs) ==
    IF Len(rs) <= 1 THEN rs
    ELSE LET best == {k \in 1..Len(rs) : \A j \in 1..Len(rs) : Len(rs[k].text) >= Len(rs[j].text)}
             m == IF runs.seed = 0 THEN CHOOSE k \in best : \A j \in best : k <= j
                  ELSE CHOOSE k \in best : \A j \in best : k >= j
             rest == [j \in 1..(Len(rs) - 1) |-> IF j < m THEN rs[j] ELSE rs[j + 1]]
         IN  <<rs[m]>> \o SortByLength_HashOrder(rest)

\* a stable sort by len(text), longest first
RECURSIVE SortByLength(_)
SortByLength(rs) ==
    IF Len(rs) <= 1 THEN rs
    ELSE LET best == {k \in 1..Len(rs) : \A j \in 1..Len(rs) : Len(rs[k].text) >= Len(rs[j].text)}
             m == CHOOSE k \in best : \A j \in best : k <= j
             rest == [j \in 1..(Len(rs) - 1) |-> IF j < m THEN rs[j] ELSE rs[j + 1]]
         IN  <<rs[m]>> \o SortByLength(rest)

product_lines(rel) == SortByLength(SelectSeq(rel, LAMBDA r : IsProductLine(r.text)))

\* quantity_match.group(1).replace(',', '.')
\* a variant that keeps the decimal comma of the OCR token
NormalizeQuantity_KeepComma(q) == q

NormalizeQuantity(q) == Replace(q, ",", ".")

\* the quantity a price line takes: the leading quantity of the first relevant line
\* within NEAR_PX that has one, else "1"
NearbyQuantity(rel, y) ==
    LET ks == {k \in 1..Len(rel) :
                 Abs(rel[k].y - y) <= NEAR_PX /\ SearchLeadingQty(rel[k].text) # None}
    IN  IF ks = {} THEN "1"
        ELSE NormalizeQuantity(SearchLeadingQty(rel[CHOOSE k \in ks : \A m \in ks : k <= m].text))

HasPrice(r) == SearchDollar(r.text) # None

HasQuantity(r) == SearchLeadingQty(r.text) # None

\* the three lists of the classification loop, each in product_lines order
complete_line_items(pl) ==
    LET sel == SelectSeq(pl, LAMBDA r : HasPrice(r) /\ HasQuantity(r))
    IN  [k \in 1..Len(sel) |->
            [y |-> sel[k].y, text |-> sel[k].text, idx |-> sel[k].idx,
             price |-> SearchDollar(sel[k].text),
             quantity |-> NormalizeQuantity(SearchLeadingQty(sel[k].text))]]

quantity_only_lines(pl) ==
    LET sel == SelectSeq(pl, LAMBDA r : HasQuantity(r) /\ ~ HasPrice(r))
    IN  [k \in 1..Len(sel) |->
            [y |-> sel[k].y, text |-> sel[k].text, idx |-> sel[k].idx,
             quantity |-> NormalizeQuantity(SearchLeadingQty(sel[k].text))]]

price_only_lines(pl, rel) ==
    LET sel == SelectSeq(pl, LAMBDA r : HasPrice(r) /\ ~ HasQuantity(r))
    IN  [k \in 1..Len(sel) |->
            [y |-> sel[k].y, text |-> sel[k].text, idx |-> sel[k].idx,
             price |-> SearchDollar(sel[k].text),
             quantity |-> NearbyQuantity(rel, sel[k].y)]]

(***************************************************************************)
(* epic_parser.py: product text and the if/elif chains that name a product *)
(***************************************************************************)
\* the stripped words of a line, in index order
Words(o, idx) == [k \in 1..Len(idx) |-> Strip(o[idx[k]].text)]

\* word and not re.match(r'\d+[,.]\d{2}', word) and not word.startswith('$')
KeepProductWord(word) == word # "" /\ ~ MatchQty(word) /\ ~ StartsWith(word, "$")

\* the quantity line of a pair also drops '|', 'teeth' and 'tooth'
KeepQuantityLineWord(word) ==
    KeepProductWord(word) /\ word # "|" /\ Lower(word) \notin {"teeth", "tooth"}

\* the price line of a pair drops only \d+\.\d{2} and '$' words
KeepPriceLineWord(word) == word # "" /\ ~ MatchAmount(word) /\ ~ StartsWith(word, "$")

fallback_stop_words ==
    {"|", "to", "up", "upper", "lower", "cast", "partial", "framework", "wax", "try",
     "in", "of", "for", "set", "teeth", "product", "id"}

KeepFallbackWord(word) == KeepPriceLineWord(word) /\ Lower(word) \notin fallback_stop_words

KeepNearbyWord(word) ==
    KeepProductWord(word) /\ Lower(word) \notin {"tooth", "product", "id", "|"}

\* product_text once the words of the first nearby line that has any are appended
\* (done when the line's own text is shorter than 5 characters)
BorrowedText(o, rel, y, parts) ==
    LET own == Strip(Join(parts, " "))
        ks == {k \in 1..Len(rel) :
                 /\ Abs(rel[k].y - y) <= NEAR_PX
                 /\ Len(SelectSeq(Words(o, rel[k].idx), KeepProductWord)) > 0}
    IN  IF Len(own) >= 5 \/ ks = {} THEN own
        ELSE LET first == CHOOSE k \in ks : \A m \in ks : k <= m
             IN  Strip(Join(parts \o SelectSeq(Words(o, rel[first].idx), KeepProductWord), " "))

Rule(pats, number, name) == [pats |-> pats, number |-> number, name |-> name]

R_SetUpProcess == Rule({"set up/process"}, "Set up/Process LRPD", "Set up & process lower RPD to finish")
R_TeethLRPD == Rule({"teeth lrpd"}, "Teeth LRPD", "Teeth LRPD")
R_TeethURPD == Rule({"teeth urpd"}, "Teeth URPD", "Teeth URPD")
R_ProcessFUD == Rule({"process fud"}, "Process FUD", "Process FUD to finish")
R_Framework == Rule({"framework lrpd", "framework urpd"}, "Framework LRPD", "Upper cast partial framework")
R_WaxRimLower == Rule({"wax rim lower", "waxrimiower"}, "wax rim lower", "Lower wax bite rim")
R_WaxBiteRim == Rule({"wax bite rim"}, "Wax bite rim", "Upper wax bite rim")
R_ProcessLRPD == Rule({"process lrpd", "process lower partial"}, "Process LRPD", "Process lower partial to finish")
R_IdTag == Rule({"id tag"}, "ID Tag", "ID Tag")
R_AcrylicURPD == Rule({"acrylic urpd"}, "Acrylic URPD", "Acrylic URPD (5-9 units)")
R_SetLRPD == Rule({"set lrpd", "set up lrpd"}, "Set LRPD", "Set LRPD for try-in")
R_SetURPD == Rule({"set urpd", "set up urpd"}, "Set URPD", "Set URPD for try-in")
R_PremiumTeeth == Rule({"set of premium teeth"}, "Set of premium teeth", "Set of premium teeth")
R_SetUpFUD == Rule({"set-up fud", "set up fud"}, "Set-up FUD", "Set-up wax try in of FUD")
R_FrameworkLower == Rule({"framework lrpd"}, "Framework LRPD", "Lower cast partial framework")
R_FrameworkUpper == Rule({"framework urpd"}, "Framework URPD", "Upper cast partial framework")
R_AcrylicURPD59 == Rule({"acrylic urpd"}, "Acrylic URPD 5-9", "Acrylic URPD (5-9 units)")
R_WaxRimTower == Rule({"waxrimtower", "_1.00}waxrimtower"}, "wax rim lower", "Lower wax bite rim")

\* the chain of the complete-line pass
CompleteTable ==
    <<R_SetUpProcess, R_TeethLRPD, R_ProcessFUD, R_Framework, R_WaxRimLower, R_WaxBiteRim,
      R_ProcessLRPD, R_IdTag, R_AcrylicURPD>>

\* the chain of the pairing pass and of the fallback pass's complete branch
PairedTable ==
    <<R_SetLRPD, R_SetURPD, R_TeethLRPD, R_TeethURPD, R_SetUpProcess, R_ProcessFUD,
      R_Framework, R_WaxRimLower, R_WaxBiteRim, R_ProcessLRPD, R_IdTag>>

\* the chain of the fallback pass
FallbackTable == <<R_WaxRimTower>>

\* the chain of the remaining price-only pass
RemainingTable == <<R_AcrylicURPD, R_PremiumTeeth>> \o PairedTable

\* the chain of the uncovered price-line pass
UncoveredTable ==
    <<R_PremiumTeeth, R_SetLRPD, R_SetURPD, R_SetUpFUD, R_TeethLRPD, R_TeethURPD,
      R_WaxBiteRim, R_FrameworkLower, R_FrameworkUpper, R_AcrylicURPD59>>

\* the first rule of the chain with a pattern in product_text.lower(); else the text itself
Canonical(table, product_text) ==
    LET t == Lower(product_text)
        ks == {k \in 1..Len(table) : \E pat \in table[k].pats : Contains(t, pat)}
    IN  IF ks = {} THEN [number |-> product_text, name |-> product_text]
        ELSE LET r == table[CHOOSE k \in ks : \A m \in ks : k <= m]
             IN  [number |-> r.number, name |-> r.name]

partial_indicators ==
    {"to", "up", "process", "upper", "lower", "cast", "partial", "framework", "finish"}

\* at most n words, one of them holding a partial indicator
IsPartial(product_text, n) ==
    LET t == Lower(product_text)
    IN  /\ Len(Split(product_text)) <= n
        /\ \E ind \in partial_indicators : Contains(t, ind)

LineItem(canon, quantity, price) ==
    [product_number |-> canon.number, product_name |-> canon.name,
     Quantity |-> quantity, unit_price |-> price, line_item_total |-> price]

\* line_items.append(line_item) together with processed_products.add(line_key)
Emit(acc, item, pass, key, y, product_text) ==
    [items |-> Append(acc.items, item),
     proc |-> acc.proc \cup {key},
     em |-> Append(acc.em, [pass |-> pass, key |-> key, y |-> y, text |-> product_text])]

\* an existing item has this (product_number, unit_price)
SamePairExists(items, number, price) ==
    \E k \in 1..Len(items) : items[k].product_number = number /\ items[k].unit_price = price

\* any(key.startswith(f"{y}_") for key in processed_products)
PairedFrom(proc, y) == \E key \in proc : StartsWith(key, Str(y) \o "_")

(***************************************************************************)
(* epic_parser.py: the five passes; acc is [items, proc, em], the          *)
(* line_items list, the processed_products set and the provenance of each  *)
(* item                                                                    *)
(***************************************************************************)
\* one iteration of "Process complete line items first"
CompleteStep(o, rel, c, acc) ==
    LET product_text == BorrowedText(o, rel, c.y, SelectSeq(Words(o, c.idx), KeepProductWord))
        key == Str(c.y)
    IN  IF Len(product_text) < 3 \/ IsPartial(product_text, 1) \/ key \in acc.proc
        THEN acc
        ELSE Emit(acc, LineItem(Canonical(CompleteTable, product_text), c.quantity, c.price),
                  "complete", key, c.y, product_text)

RECURSIVE CompletePass(_, _, _, _, _)
CompletePass(o, rel, cl, k, acc) ==
    IF k > Len(cl) THEN acc
    ELSE CompletePass(o, rel, cl, k + 1, CompleteStep(o, rel, cl[k], acc))

\* a price-only line may pair with the quantity line: near enough, and a shared
\* word or very near
Eligible(q, p) ==
    LET distance == Abs(p.y - q.y)
        qs == Split(Lower(q.text))
        ps == Split(Lower(p.text))
        q_words == {qs[j] : j \in 1..Len(qs)}
        p_words == {ps[j] : j \in 1..Len(ps)}
    IN  distance <= PAIR_PX /\ (q_words \cap p_words # {} \/ distance <= PAIR_CLOSE_PX)

\* a variant of the inner loop that keeps the first eligible line, however far
RECURSIVE BestMatch_FirstEligible(_, _, _, _)
BestMatch_FirstEligible(q, pol, k, best) ==
    IF k > Len(pol) THEN best
    ELSE IF Eligible(q, pol[k]) /\ best = 0
    THEN BestMatch_FirstEligible(q, pol, k + 1, k)
    ELSE BestMatch_FirstEligible(q, pol, k + 1, best)

\* the inner loop over price_only_lines from k on: best is the index chosen so far (0: none)
RECURSIVE BestMatch(_, _, _, _)
BestMatch(q, pol, k, best) ==
    IF k > Len(pol) THEN best
    ELSE IF Eligible(q, pol[k])
            /\ (best = 0 \/ Abs(pol[k].y - q.y) < Abs(pol[best].y - q.y))
    THEN BestMatch(q, pol, k + 1, k)
    ELSE BestMatch(q, pol, k + 1, best)

\* one iteration of the pairing loop; the inner loop rebinds `quantity` to the
\* price line's, which is the quantity the item carries
PairStep(o, q, pol, acc) ==
    LET b == BestMatch(q, pol, 1, 0)
        pm == pol[b]
        product_text ==
            Strip(Join(SelectSeq(Words(o, q.idx), KeepQuantityLineWord)
                       \o SelectSeq(Words(o, pm.idx), KeepPriceLineWord), " "))
        key == Str(q.y) \o "_" \o Str(pm.y)
    IN  IF b = 0 THEN acc
        ELSE IF Len(product_text) < 5 \/ IsPartial(product_text, 2) \/ key \in acc.proc
        THEN acc
        ELSE Emit(acc, LineItem(Canonical(PairedTable, product_text), pm.quantity, pm.price),
                  "paired", key, q.y, product_text)

RECURSIVE PairPass(_, _, _, _, _)
PairPass(o, ql, pol, k, acc) ==
    IF k > Len(ql) THEN acc
    ELSE PairPass(o, ql, pol, k + 1, PairStep(o, ql[k], pol, acc))

\* the fallback pass's first skip: the line is the quantity side of a pair, or an
\* existing item names it and has its price
FallbackAlreadyProcessed(r, acc) ==
    \/ PairedFrom(acc.proc, r.y)
    \/ \E k \in 1..Len(acc.items) :
          /\ \/ Contains(r.text, acc.items[k].product_number)
             \/ Contains(Lower(acc.items[k].product_name), Lower(r.text))
          /\ SearchDollar(r.text) # None
          /\ SearchDollar(r.text) = acc.items[k].unit_price

IsContinuation(r, pl) ==
    \E k \in 1..Len(pl) : pl[k].y # r.y /\ Abs(pl[k].y - r.y) <= CONTINUATION_PX

\* the "same product and price" loop of the fallback pass: its `continue` resumes the
\* loop over line_items, not the one over product_lines, so it skips nothing
FallbackDuplicateSkip(items, number, price) == FALSE

\* a variant of the branch below without the processed_products check
FallbackCompleteStep_NoKeyCheck(o, rel, r, acc) ==
    LET price == SearchDollar(r.text)
        quantity == NormalizeQuantity(SearchLeadingQty(r.text))
        product_text == BorrowedText(o, rel, r.y, SelectSeq(Words(o, r.idx), KeepProductWord))
        canon == Canonical(PairedTable, product_text)
    IN  IF Len(product_text) < 3 THEN acc
        ELSE Emit(acc, LineItem(canon, quantity, price), "fallback_complete", Str(r.y), r.y, product_text)

\* the branch for a line with both a quantity and a price
FallbackCompleteStep(o, rel, r, acc) ==
    LET price == SearchDollar(r.text)
        quantity == NormalizeQuantity(SearchLeadingQty(r.text))
        product_text == BorrowedText(o, rel, r.y, SelectSeq(Words(o, r.idx), KeepProductWord))
        canon == Canonical(PairedTable, product_text)
        key == Str(r.y)
    IN  IF Len(product_text) < 3 \/ key \in acc.proc
           \/ FallbackDuplicateSkip(acc.items, canon.number, price)
        THEN acc
        ELSE Emit(acc, LineItem(canon, quantity, price), "fallback_complete", key, r.y, product_text)

\* "Look for any price in the relevant lines": the first line holding a $ amount
FallbackPrice(rel) ==
    LET ks == {k \in 1..Len(rel) : SearchDollar(rel[k].text) # None}
    IN  IF ks = {} THEN None ELSE SearchDollar(rel[CHOOSE k \in ks : \A m \in ks : k <= m].text)

generic_words == {"process", "up", "to", "in", "of", "for", "set", "teeth"}

\* the skips of the fallback branch that look at the filtered text
FallbackTextSkipped(product_text) ==
    LET words == Split(product_text)
    IN  \/ Len(product_text) < 5
        \/ Len(words) = 1 /\ Lower(product_text) \in generic_words
        \/ StartsWith(product_text, "|") \/ StartsWith(product_text, "to ")
        \/ StartsWith(product_text, "up ")
        \/ Len(words) >= 2 /\ words[1] = words[2]
        \/ /\ Len(words) >= 4 /\ words[1] = words[3] /\ words[2] = words[4]
           /\ \/ Len(words) <= 4
              \/ Lower(words[5]) \in {"to", "up", "process", "upper", "lower", "cast",
                                      "partial", "framework"}

\* the branch for a line without both: quantity "1" and the price of FallbackPrice
FallbackPlainStep(o, rel, r, acc) ==
    LET price == FallbackPrice(rel)
        product_text == Strip(Join(SelectSeq(Words(o, r.idx), KeepFallbackWord), " "))
        canon == Canonical(FallbackTable, product_text)
        key == Str(r.y)
    IN  IF price = None \/ FallbackTextSkipped(product_text) \/ key \in acc.proc
           \/ FallbackDuplicateSkip(acc.items, canon.number, price)
        THEN acc
        ELSE Emit(acc, LineItem(canon, "1", price), "fallback", key, r.y, product_text)

FallbackStep(o, rel, pl, r, acc) ==
    IF FallbackAlreadyProcessed(r, acc) \/ IsContinuation(r, pl) THEN acc
    ELSE IF SearchDollar(r.text) # None /\ SearchLeadingQty(r.text) # None
    THEN FallbackCompleteStep(o, rel, r, acc)
    ELSE FallbackPlainStep(o, rel, r, acc)

RECURSIVE FallbackPass(_, _, _, _, _)
FallbackPass(o, rel, pl, k, acc) ==
    IF k > Len(pl) THEN acc
    ELSE FallbackPass(o, rel, pl, k + 1, FallbackStep(o, rel, pl, pl[k], acc))

\* one iteration of "Process any remaining price-only lines"
RemainingStep(o, rel, pr, acc) ==
    LET product_text == BorrowedText(o, rel, pr.y, SelectSeq(Words(o, pr.idx), KeepProductWord))
        canon == Canonical(RemainingTable, product_text)
        key == Str(pr.y)
    IN  IF PairedFrom(acc.proc, pr.y) \/ Len(product_text) < 3 \/ key \in acc.proc
           \/ SamePairExists(acc.items, canon.number, pr.price)
        THEN acc
        ELSE Emit(acc, LineItem(canon, pr.quantity, pr.price), "remaining", key, pr.y, product_text)

RECURSIVE RemainingPass(_, _, _, _, _)
RemainingPass(o, rel, pol, k, acc) ==
    IF k > Len(pol) THEN acc
    ELSE RemainingPass(o, rel, pol, k + 1, RemainingStep(o, rel, pol[k], acc))

\* the longest filtered text among the lines within NEAR_PX, the first such on a tie
RECURSIVE BestNearbyText(_, _, _, _, _)
BestNearbyText(o, rel, y, k, best) ==
    IF k > Len(rel) THEN best
    ELSE LET t == IF Abs(rel[k].y - y) <= NEAR_PX
                  THEN Strip(Join(SelectSeq(Words(o, rel[k].idx), KeepNearbyWord), " ")) ELSE ""
         IN  BestNearbyText(o, rel, y, k + 1, IF Len(t) > Len(best) THEN t ELSE best)

uncovered_skip_words == {"|", "to", "extended", "invoice", "subtotal", "tooth", "product id"}

\* one iteration of "Process any price-only lines that weren't detected as product lines"
UncoveredStep(o, rel, r, acc) ==
    LET price == SearchDollar(r.text)
        quantity == NearbyQuantity(rel, r.y)
        product_text == BestNearbyText(o, rel, r.y, 1, "")
        canon == Canonical(UncoveredTable, product_text)
        key == Str(r.y)
        lowered == Lower(product_text)
    IN  IF PairedFrom(acc.proc, r.y) \/ price = None \/ product_text = ""
           \/ (\E w \in uncovered_skip_words : Contains(lowered, w))
           \/ SamePairExists(acc.items, canon.number, price)
           \/ key \in acc.proc
        THEN acc
        ELSE Emit(acc, LineItem(canon, quantity, price), "uncovered", key, r.y, product_text)

RECURSIVE UncoveredPass(_, _, _, _)
UncoveredPass(o, rel, k, acc) ==
    IF k > Len(rel) THEN acc
    ELSE UncoveredPass(o, rel, k + 1, UncoveredStep(o, rel, rel[k], acc))

(***************************************************************************)
(* epic_parser.py: extract_invoice_data as a state machine                 *)
(***************************************************************************)
ResultInit ==
    [vendor |-> "Epic Dental Lab", invoice_number |-> "", invoice_date |-> "",
     total |-> "0.00", office_location |-> "", vendor_name |-> "Epic Dental Lab"]

NoBounds == [start |-> NoY, end |-> NoY]

NoCands == [rel |-> <<>>, pl |-> <<>>, complete |-> <<>>, qonly |-> <<>>, ponly |-> <<>>]

Acc == [items |-> line_items, proc |-> processed, em |-> emitted]

SetAcc(a) == line_items' = a.items /\ processed' = a.proc /\ emitted' = a.em

\* convert_pdf_to_image: a PDF that cannot be read makes it return None (the exception
\* is caught inside), and extract_invoice_data then returns None
ConvertPdf ==
    /\ pc = "convert"
    /\ pc' = IF cli.exists THEN "start" ELSE "failed"
    /\ UNCHANGED <<ocr, lines, result, bounds, cands, processed, line_items, emitted, dd, vr, otherVars>>

\* the Epic keyword check on the OCR text; a miss returns None
CheckEpicKeywords ==
    /\ pc = "start"
    /\ pc' = IF IsEpic(ocr) THEN "group" ELSE "failed"
    /\ UNCHANGED <<ocr, lines, result, bounds, cands, processed, line_items, emitted, dd, vr, otherVars>>

GroupLines ==
    /\ pc = "group"
    /\ lines' = group_by_lines(ocr)
    /\ pc' = "header"
    /\ UNCHANGED <<ocr, result, bounds, cands, processed, line_items, emitted, dd, vr, otherVars>>

ExtractHeader ==
    /\ pc = "header"
    /\ LET h == ExtractHeaderFields(ocr, lines)
       IN  result' = [result EXCEPT !.invoice_number = h.invoice_number,
                                    !.invoice_date = h.invoice_date,
                                    !.office_location = h.office_location]
    /\ pc' = "total"
    /\ UNCHANGED <<ocr, lines, bounds, cands, processed, line_items, emitted, dd, vr, otherVars>>

\* a float() error in the fallback loop reaches the outer except: return None
ExtractTotal ==
    /\ pc = "total"
    /\ IF TotalRaises(ocr, lines)
       THEN pc' = "failed" /\ UNCHANGED result
       ELSE /\ pc' = "bounds"
            /\ result' = [result EXCEPT !.total = FindTotal(ocr, lines, result.invoice_number)]
    /\ UNCHANGED <<ocr, lines, bounds, cands, processed, line_items, emitted, dd, vr, otherVars>>

\* without a start line there are no line items and the result is returned as it is
LocateTable ==
    /\ pc = "bounds"
    /\ bounds' = FindBounds(ocr, lines)
    /\ pc' = IF bounds'.start = NoY THEN "done" ELSE "select"
    /\ UNCHANGED <<ocr, lines, result, cands, processed, line_items, emitted, dd, vr, otherVars>>

SelectCandidates ==
    /\ pc = "select"
    /\ LET rel == all_relevant_lines(ocr, lines, bounds)
           pl == product_lines(rel)
       IN  cands' = [rel |-> rel, pl |-> pl,
                     complete |-> complete_line_items(pl),
                     qonly |-> quantity_only_lines(pl),
                     ponly |-> price_only_lines(pl, rel)]
    /\ pc' = "complete"
    /\ UNCHANGED <<ocr, lines, result, bounds, processed, line_items, emitted, dd, vr, otherVars>>

ResolveComplete ==
    /\ pc = "complete"
    /\ SetAcc(CompletePass(ocr, cands.rel, cands.complete, 1, Acc))
    /\ pc' = "pair"
    /\ UNCHANGED <<ocr, lines, result, bounds, cands, dd, vr, otherVars>>

PairSplitLines ==
    /\ pc = "pair"
    /\ SetAcc(PairPass(ocr, cands.qonly, cands.ponly, 1, Acc))
    /\ pc' = "fallback"
    /\ UNCHANGED <<ocr, lines, result, bounds, cands, dd, vr, otherVars>>

Fallback ==
    /\ pc = "fallback"
    /\ SetAcc(FallbackPass(ocr, cands.rel, cands.pl, 1, Acc))
    /\ pc' = "remaining"
    /\ UNCHANGED <<ocr, lines, result, bounds, cands, dd, vr, otherVars>>

RemainingPriceOnly ==
    /\ pc = "remaining"
    /\ SetAcc(RemainingPass(ocr, cands.rel, cands.ponly, 1, Acc))
    /\ pc' = "uncovered"
    /\ UNCHANGED <<ocr, lines, result, bounds, cands, dd, vr, otherVars>>

UncoveredPriceLines ==
    /\ pc = "uncovered"
    /\ SetAcc(UncoveredPass(ocr, cands.rel, 1, Acc))
    /\ pc' = "done"
    /\ UNCHANGED <<ocr, lines, result, bounds, cands, dd, vr, otherVars>>

\* main after extract_invoice_data has returned: a truthy result is dumped to
\* <output_dir>/<base>_parsed.json and the summary printed, None prints the failure
\* line; main then returns, so the process ends with code 0 either way
MainExit ==
    /\ pc \in {"done", "failed"}
    /\ cli.pc = "main"
    /\ cli' = [cli EXCEPT !.pc = "exit", !.code = 0,
                          !.artifact = (pc = "done"),
                          !.stdout = IF pc = "done"
                                     THEN "Extracted " \o Str(Len(line_items)) \o " line items"
                                     ELSE "Failed to parse invoice"]
    /\ UNCHANGED <<epicVars, dd, vr, em, pt, qw, runs, sh, orch>>

NextEpic ==
    \/ ConvertPdf
    \/ CheckEpicKeywords
    \/ GroupLines
    \/ ExtractHeader
    \/ ExtractTotal
    \/ LocateTable
    \/ SelectCandidates
    \/ ResolveComplete
    \/ PairSplitLines
    \/ Fallback
    \/ RemainingPriceOnly
    \/ UncoveredPriceLines
    \/ MainExit

(***************************************************************************)
(* OCR inputs of the reconstructor: an "Epic Dental Lab" banner and up to  *)
(* MaxItemLines printed lines, each one of ItemTemplates at one of ItemYs  *)
(***************************************************************************)
MaxItemLines == 2

ItemYs == <<100, 120, 260>>

ItemTemplates ==
    <<  <<"1.00", "Process", "FUD", "$45.00">>,
        <<"1,00", "process", "fud", "$45.00">>,
        <<"1.00", "Teeth", "LRPD", "$45.00">>,
        <<"2,00", "Framework", "LRPD">>,
        <<"Framework", "LRPD", "$30.00">>,
        <<"Acrylic", "URPD">>,
        <<"Acrylic", "URPD", "$45.00">>,
        <<"1.00", "Process", "$45.00">>,
        <<"Qty", "Product", "ID">>  >>

\* a token of image_to_data: its text, its top and left pixel and its confidence
TokAt(text, top, left, conf) == [text |-> text, top |-> top, left |-> left, conf |-> conf]

Tok(text, top) == TokAt(text, top, 40, 95)

Banner == <<TokAt("Epic", 10, 40, 95), TokAt("Dental", 10, 120, 95), TokAt("Lab", 10, 200, 95)>>

\* the tokens of the printed lines k..n of a document d: line k is <<y index, template index>>
RECURSIVE LineTokens(_, _, _, _)
LineTokens(d, k, Ys, Ts) ==
    IF k > Len(d) THEN <<>>
    ELSE [j \in 1..Len(Ts[d[k][2]]) |-> TokAt(Ts[d[k][2]][j], Ys[d[k][1]], 80 * j - 40, 95)]
         \o LineTokens(d, k + 1, Ys, Ts)

\* documents of 1..n lines laid out top to bottom
Layouts(n, Ys, Ts) ==
    UNION {{d \in [1..m -> (1..Len(Ys)) \X (1..Len(Ts))] :
                \A k \in 1..(m - 1) : d[k][1] <= d[k + 1][1]} : m \in 1..n}

\* documents that print a table header, an item line and a total line in any order
MaxTableLines == 3

TableTemplates ==
    <<  <<"Qty", "Product", "ID">>,
        <<"1.00", "Process", "FUD", "$45.00">>,
        <<"Total", "$75.00">>  >>

TableDocs ==
    {Banner \o LineTokens(d, 1, ItemYs, TableTemplates) :
        d \in Layouts(MaxTableLines, ItemYs, TableTemplates)}

\* documents that split an item over a quantity line and price lines, up to 230 px apart
PairYs == <<100, 120, 260, 330>>

PairTemplates ==
    <<  <<"2,00", "Framework", "LRPD">>,
        <<"Framework", "LRPD", "$30.00">>,
        <<"Acrylic", "URPD", "$45.00">>  >>

PairDocs ==
    {Banner \o LineTokens(d, 1, PairYs, PairTemplates) :
        d \in Layouts(MaxTableLines, PairYs, PairTemplates)}

ItemDocs ==
    {Banner \o LineTokens(d, 1, ItemYs, ItemTemplates) :
        d \in Layouts(MaxItemLines, ItemYs, ItemTemplates)}
    \cup {LineTokens(<<t>>, 1, ItemYs, ItemTemplates) : t \in {<<1, 1>>}}

DdIdle == [pc |-> "idle"]

VrIdle == [pc |-> "idle"]

EmIdle == [pc |-> "idle"]

CliIdle == [pc |-> "idle"]

PtIdle == [pc |-> "idle"]

QwIdle == [queue |-> <<>>, calls |-> <<>>]

\* no process has touched the queue file yet
ShIdle ==
    [file |-> <<>>, w |-> [pc |-> "idle", queue |-> <<>>, number |-> ""],
     u |-> [pc |-> "idle", queue |-> <<>>, todo |-> <<>>], added |-> {}, marked |-> {}]

\* the orchestrator has not been started
OrchIdle == [pc |-> "idle"]

\* what a run of extract_invoice_data leaves: where it ended, the header fields and
\* the total, and the line items
RunOutput(at, res, items) == [pc |-> at, result |-> res, line_items |-> items]

FirstRun == [n |-> 1, seed |-> 0, first |-> RunOutput("none", ResultInit, <<>>)]

OthersIdle ==
    em = EmIdle /\ cli = CliIdle /\ pt = PtIdle /\ qw = QwIdle /\ runs = FirstRun /\ sh = ShIdle /\ orch = OrchIdle

\* a run of main on a PDF: the file is there and OCR reads one of docs from it, or it
\* is not there
InitEpic(docs) ==
    /\ \E exists \in BOOLEAN :
          /\ cli = [pc |-> "main", exists |-> exists, code |-> -1, artifact |-> FALSE,
                    stdout |-> ""]
          /\ IF exists THEN ocr \in docs ELSE ocr = <<>>
    /\ pc = "convert"
    /\ lines = <<>>
    /\ result = ResultInit
    /\ bounds = NoBounds
    /\ cands = NoCands
    /\ processed = {}
    /\ line_items = <<>>
    /\ emitted = <<>>
    /\ dd = DdIdle
    /\ vr = VrIdle
    /\ em = EmIdle
    /\ pt = PtIdle
    /\ qw = QwIdle
    /\ runs = FirstRun /\ sh = ShIdle /\ orch = OrchIdle

InitItems == InitEpic(ItemDocs)

\* the tokens of the documents that exercise the clustering: three rows 10 px apart, a
\* token at the discard threshold, one below it and one of blank text
MaxTokens == 4

ClusterTokens ==
    {TokAt("A", 100, 200, 95), TokAt("F", 100, 40, 95), TokAt("B", 120, 40, 95),
     TokAt("C", 110, 120, 30), TokAt("D", 110, 280, 29), TokAt(" ", 135, 360, 95)}

\* the tokens of the documents that exercise the header scan
HeaderTokens ==
    {TokAt("#123", 40, 40, 95), TokAt("5206", 40, 120, 95), TokAt("#7001", 60, 40, 95),
     TokAt("01/15/2025", 40, 200, 95), TokAt("02/20/2025", 60, 200, 95),
     TokAt("12-34", 60, 280, 95)}

\* the sequences of 1..n tokens of S
TokenSeqs(S, n) == UNION {[1..m -> S] : m \in 1..n}

\* the banner followed by up to MaxTokens tokens in any OCR order; one document with a
\* priced line takes the run through the item passes
ScanDocs ==
    {Banner \o ts : ts \in TokenSeqs(ClusterTokens, MaxTokens)}
    \cup {Banner \o ts : ts \in TokenSeqs(HeaderTokens, MaxTokens)}
    \cup {Banner \o LineTokens(<<t>>, 1, ItemYs, ItemTemplates) : t \in {<<1, 1>>}}

InitScan == InitEpic(ScanDocs)

SpecScan == InitScan /\ [][NextEpic]_vars

\* the hash seeds a Python process may start with
HashSeeds == {0, 1}

\* the program is started once more on the same PDF, in a new process: what the first
\* run produced is kept aside and every variable of the run starts afresh
RunAgain ==
    /\ cli.pc = "exit"
    /\ runs.n = 1
    /\ \E seed \in HashSeeds :
          runs' = [n |-> 2, seed |-> seed, first |-> RunOutput(pc, result, line_items)]
    /\ cli' = [cli EXCEPT !.pc = "main", !.code = -1, !.artifact = FALSE, !.stdout = ""]
    /\ pc' = "convert"
    /\ lines' = <<>>
    /\ result' = ResultInit
    /\ bounds' = NoBounds
    /\ cands' = NoCands
    /\ processed' = {}
    /\ line_items' = <<>>
    /\ emitted' = <<>>
    /\ UNCHANGED <<ocr, dd, vr, em, pt, qw, sh, orch>>

NextRerun == NextEpic \/ RunAgain

SpecRerun == InitItems /\ [][NextRerun]_vars

SpecItems == InitItems /\ [][NextEpic]_vars

\* runs on the documents with a table header or a total line and on those with split items
InitTable == InitEpic(TableDocs \cup PairDocs)

SpecTable == InitTable /\ [][NextEpic]_vars

(***************************************************************************)
(* OCR inputs of the total extraction: the banner and up to MaxTotalLines  *)
(* lines, each one of TotalTemplates at one of TotalYs                     *)
(***************************************************************************)
MaxTotalLines == 2

TotalYs == <<300, 340, 500>>

TotalTemplates ==
    <<  <<"Total", "$75.00">>,
        <<"Total", "$75.00,">>,
        <<"Extended", "Amount", "$80.00">>,
        <<"Misc", "20.00">>,
        <<"Misc", "5.00">>,
        <<"Discount", "$(97.00)">>,
        <<"Balance", "Due", "0.00">>,
        <<"Invoice", "#5418">>,
        <<"Misc", "$20.00x">>,
        <<"Misc", "$5.00">>  >>

TotalDocs ==
    {Banner \o LineTokens(d, 1, TotalYs, TotalTemplates) :
        d \in Layouts(MaxTotalLines, TotalYs, TotalTemplates)}
    \cup {LineTokens(<<t>>, 1, TotalYs, TotalTemplates) : t \in {<<1, 1>>}}

InitTotals == InitEpic(TotalDocs)

SpecTotals == InitTotals /\ [][NextEpic]_vars

(***************************************************************************)
(* Regular expressions of due_date_extractor.py.  A pattern is a sequence  *)
(* of atoms (a character class repeated lo..hi times, greedily) with one   *)
(* capture group, the atoms g1..g2; a match is found by backtracking in    *)
(* the order of Python's re                                                *)
(***************************************************************************)
SpaceChars == {" ", "\n", "\t"}

One(cls) == [cls |-> cls, lo |-> 1, many |-> FALSE, opt |-> FALSE]

\* c?
Opt(cls) == [cls |-> cls, lo |-> 0, many |-> FALSE, opt |-> TRUE]

\* c*
Star(cls) == [cls |-> cls, lo |-> 0, many |-> TRUE, opt |-> FALSE]

\* c+
Plus(cls) == [cls |-> cls, lo |-> 1, many |-> TRUE, opt |-> FALSE]

\* the literal characters of a word, one atom each
Lit(word) == [k \in 1..Len(word) |-> One({Ch(word, k)})]

\* [Xx]rest
Word(first, rest) == <<One(first)>> \o Lit(rest)

\* \d{1,2}/\d{1,2}/\d{4}
DateAtoms ==
    <<One(DigitChars), Opt(DigitChars), One({"/"}), One(DigitChars), Opt(DigitChars),
      One({"/"}), One(DigitChars), One(DigitChars), One(DigitChars), One(DigitChars)>>

\* a pattern whose capture group is the atoms grp between pre and post
Pattern(pre, grp, post) ==
    [atoms |-> pre \o grp \o post, g1 |-> Len(pre) + 1, g2 |-> Len(pre) + Len(grp)]

NoMatch == [ok |-> FALSE, gs |-> 0, ge |-> 0]

\* the length of the run of class characters of s from position i, at most cap
RECURSIVE RunLength(_, _, _, _)
RunLength(s, i, cls, cap) ==
    IF cap = 0 \/ i > Len(s) \/ Ch(s, i) \notin cls THEN 0
    ELSE 1 + RunLength(s, i + 1, cls, cap - 1)

\* atoms k.. of p matched at position i of s; gs and ge are the bounds of the group
RECURSIVE MatchAtoms(_, _, _, _, _, _), TryCount(_, _, _, _, _, _, _)
MatchAtoms(p, k, s, i, gs, ge) ==
    LET gs1 == IF k = p.g1 THEN i ELSE gs
        ge1 == IF k = p.g2 + 1 THEN i ELSE ge
    IN  IF k > Len(p.atoms) THEN [ok |-> TRUE, gs |-> gs1, ge |-> ge1]
        ELSE LET a == p.atoms[k]
                 cap == IF a.many THEN Len(s) ELSE 1
                 run == RunLength(s, i, a.cls, cap)
             IN  IF run < a.lo THEN NoMatch ELSE TryCount(p, k, s, i, run, gs1, ge1)

\* the greedy choice: the longest repetition first, then shorter ones
TryCount(p, k, s, i, n, gs, ge) ==
    LET m == MatchAtoms(p, k + 1, s, i + n, gs, ge)
    IN  IF m.ok THEN m
        ELSE IF n > p.atoms[k].lo THEN TryCount(p, k, s, i, n - 1, gs, ge)
        ELSE NoMatch

\* group(1) of the match of p at position i of s, None without one
GroupAt(p, s, i) ==
    LET m == MatchAtoms(p, 1, s, i, 0, 0)
    IN  IF m.ok THEN Slice(s, m.gs, m.ge - 1) ELSE None

\* re.search(p, s).group(1): the leftmost match, None without one
Search(p, s) ==
    LET hits == {i \in 1..(Len(s) + 1) : MatchAtoms(p, 1, s, i, 0, 0).ok}
    IN  IF hits = {} THEN None
        ELSE GroupAt(p, s, CHOOSE i \in hits : \A j \in hits : i <= j)

\* the atoms match s from its first to its last character
FullMatch(atoms, s) ==
    LET p == [atoms |-> atoms, g1 |-> 1, g2 |-> Len(atoms)]
        m == MatchAtoms(p, 1, s, 1, 0, 0)
    IN  m.ok /\ m.ge = Len(s) + 1

(***************************************************************************)
(* datetime: strptime, timedelta and strftime on [y, m, d] records         *)
(***************************************************************************)
IsLeap(y) == (y % 4 = 0 /\ y % 100 # 0) \/ y % 400 = 0

DaysInMonth(y, m) ==
    IF m = 2 THEN (IF IsLeap(y) THEN 29 ELSE 28)
    ELSE IF m \in {4, 6, 9, 11} THEN 30 ELSE 31

\* the fields of a date string cut at its separator
Field(s, sep, n) ==
    LET cuts == <<0>> \o SelectSeq([k \in 1..Len(s) |-> IF Ch(s, k) = sep THEN k ELSE 0],
                                   LAMBDA k : k # 0) \o <<Len(s) + 1>>
    IN  Slice(s, cuts[n] + 1, cuts[n + 1] - 1)

\* the outcome of a ValueError in datetime
NoDate == [y |-> 0, m |-> 0, d |-> 0]

\* the date with these fields, NoDate when datetime rejects them
DateOf(y, m, d) ==
    IF y >= 1 /\ m >= 1 /\ m <= 12 /\ d >= 1 /\ d <= DaysInMonth(y, m)
    THEN [y |-> y, m |-> m, d |-> d] ELSE NoDate

\* datetime.strptime(s, '%m/%d/%Y')
StrptimeMDY(s) ==
    IF FullMatch(DateAtoms, s)
    THEN DateOf(IntOf(Field(s, "/", 3)), IntOf(Field(s, "/", 1)), IntOf(Field(s, "/", 2)))
    ELSE NoDate

\* datetime.strptime(s, '%m/%d/%y'): years 00-68 are 2000-2068, 69-99 are 1969-1999
StrptimeMDy(s) ==
    IF FullMatch(<<One(DigitChars), Opt(DigitChars), One({"/"}), One(DigitChars),
                   Opt(DigitChars), One({"/"}), One(DigitChars), One(DigitChars)>>, s)
    THEN LET yy == IntOf(Field(s, "/", 3))
         IN  DateOf(IF yy <= 68 THEN 2000 + yy ELSE 1900 + yy,
                    IntOf(Field(s, "/", 1)), IntOf(Field(s, "/", 2)))
    ELSE NoDate

\* datetime.strptime(s, '%Y-%m-%d')
StrptimeYMD(s) ==
    IF FullMatch(<<One(DigitChars), One(DigitChars), One(DigitChars), One(DigitChars),
                   One({"-"}), One(DigitChars), Opt(DigitChars), One({"-"}),
                   One(DigitChars), Opt(DigitChars)>>, s)
    THEN DateOf(IntOf(Field(s, "-", 1)), IntOf(Field(s, "-", 2)), IntOf(Field(s, "-", 3)))
    ELSE NoDate

\* date + timedelta(days=n)
RECURSIVE AddDays(_, _)
AddDays(date, n) ==
    LET left == DaysInMonth(date.y, date.m) - date.d
    IN  IF n <= left THEN [date EXCEPT !.d = date.d + n]
        ELSE AddDays([y |-> IF date.m = 12 THEN date.y + 1 ELSE date.y,
                      m |-> IF date.m = 12 THEN 1 ELSE date.m + 1,
                      d |-> 1], n - left - 1)

Pad2(n) == IF n < 10 THEN "0" \o Str(n) ELSE Str(n)

\* date.strftime('%m/%d/%Y') for a four-digit year
Strftime(date) == Pad2(date.m) \o "/" \o Pad2(date.d) \o "/" \o Str(date.y)

(***************************************************************************)
(* due_date_extractor.py                                                   *)
(***************************************************************************)
Dd == {"D", "d"}

Colon == <<Star(SpaceChars), Opt({":"}), Star(SpaceChars)>>

\* [Tt]erms?\s*:?\s*[Nn]et\s+
TermsNet ==
    Word({"T", "t"}, "erm") \o <<Opt({"s"})>> \o Colon
        \o Word({"N", "n"}, "et") \o <<Plus(SpaceChars)>>

\* \s+[Dd]ays?
Days == <<Plus(SpaceChars)>> \o Word(Dd, "ay") \o <<Opt({"s"})>>

\* \s+[Ff]rom\s+
From_ == <<Plus(SpaceChars)>> \o Word({"F", "f"}, "rom") \o <<Plus(SpaceChars)>>

\* the patterns of _extract_exact_due_date, in order
exact_patterns ==
    <<  Pattern(Word(Dd, "ue") \o <<Plus(SpaceChars)>> \o Word(Dd, "ate") \o Colon,
                DateAtoms, <<>>),
        Pattern(Word(Dd, "ue") \o <<Plus(SpaceChars)>> \o Word({"B", "b"}, "y") \o Colon,
                DateAtoms, <<>>),
        Pattern(Word(Dd, "ue") \o Colon, DateAtoms, <<>>),
        Pattern(Word({"P", "p"}, "ayment") \o <<Plus(SpaceChars)>> \o Word(Dd, "ue") \o Colon,
                DateAtoms, <<>>),
        Pattern(Word({"A", "a"}, "mount") \o <<Plus(SpaceChars)>> \o Word(Dd, "ue") \o Colon
                    \o <<Opt({"$"}), Plus(DigitChars \cup {","}), Opt({"."}),
                         Star(DigitChars), Star(SpaceChars)>>,
                DateAtoms, <<>>),
        Pattern(Word({"N", "n"}, "et") \o <<Plus(SpaceChars), Plus(DigitChars)>> \o Colon,
                DateAtoms, <<>>),
        Pattern(TermsNet \o <<Plus(DigitChars), Star(SpaceChars)>>, DateAtoms, <<>>)  >>

\* the patterns of _extract_relative_due_date, in order
relative_patterns ==
    <<  Pattern(Word(Dd, "ue") \o <<Plus(SpaceChars)>>, <<Plus(DigitChars)>>,
                Days \o From_ \o Word(Dd, "ate")),
        Pattern(Word({"N", "n"}, "et") \o <<Plus(SpaceChars)>>, <<Plus(DigitChars)>>, Days),
        Pattern(Word({"P", "p"}, "ayment") \o <<Plus(SpaceChars)>> \o Word({"T", "t"}, "erm")
                    \o <<Opt({"s"})>> \o Colon,
                <<Plus(DigitChars)>>, Days),
        Pattern(TermsNet, <<Plus(DigitChars)>>, <<>>),
        Pattern(<<>>, <<Plus(DigitChars)>>,
                Days \o From_ \o Word({"I", "i"}, "nvoice") \o <<Plus(SpaceChars)>>
                    \o Word(Dd, "ate"))  >>

\* the loop over patterns from k on: the first pattern whose leftmost match holds a
\* date strptime accepts returns that match's text
RECURSIVE ExactFrom(_, _)
ExactFrom(text, k) ==
    IF k > Len(exact_patterns) THEN None
    ELSE LET due_date == Search(exact_patterns[k], text)
         IN  IF due_date # None /\ StrptimeMDY(due_date) # NoDate THEN due_date
             ELSE ExactFrom(text, k + 1)

extract_exact_due_date(text) == ExactFrom(text, 1)

\* the loop over patterns from k on: the first pattern that matches gives the days
RECURSIVE RelativeFrom(_, _, _)
RelativeFrom(text, inv_date, k) ==
    IF k > Len(relative_patterns) THEN None
    ELSE LET days == Search(relative_patterns[k], text)
         IN  IF days # None THEN Strftime(AddDays(inv_date, IntOf(days)))
             ELSE RelativeFrom(text, inv_date, k + 1)

extract_relative_due_date(text, invoice_date) ==
    LET inv_date == IF Contains(invoice_date, "/") THEN StrptimeMDY(invoice_date)
                    ELSE StrptimeYMD(invoice_date)
    IN  IF inv_date = NoDate THEN None ELSE RelativeFrom(text, inv_date, 1)

extract_due_date(text, invoice_date) ==
    LET exact_due_date == extract_exact_due_date(text)
    IN  IF exact_due_date # None THEN exact_due_date
        ELSE IF invoice_date \notin {None, ""}
        THEN extract_relative_due_date(text, invoice_date)
        ELSE None

\* henry_parser.py: the due date of the record, invoice date + 30 days when the
\* extractor found none
HenryDueDateOf(extracted, invoice_date_str) ==
    LET due_date == IF extracted = None THEN "" ELSE extracted
        short == StrptimeMDy(invoice_date_str)
        base == IF short # NoDate THEN short ELSE StrptimeMDY(invoice_date_str)
    IN  IF due_date = "" /\ invoice_date_str # "" /\ base # NoDate
        THEN Strftime(AddDays(base, 30))
        ELSE due_date

Unset == "<unset>"

\* a caller applies extract_due_date to its text and invoice date
ExtractDueDate ==
    /\ dd.pc = "call"
    /\ dd' = [dd EXCEPT !.pc = "returned",
                        !.result = extract_due_date(dd.text, dd.invoice_date)]
    /\ UNCHANGED <<epicVars, vr, otherVars>>

\* henry_parser.py fills due_date from the result, or from its 30-day fallback
HenryDueDate ==
    /\ dd.pc = "returned"
    /\ dd.invoice_date # None
    /\ dd' = [dd EXCEPT !.pc = "recorded",
                        !.due_date = HenryDueDateOf(dd.result, dd.invoice_date)]
    /\ UNCHANGED <<epicVars, vr, otherVars>>

NextDue == ExtractDueDate \/ HenryDueDate

(***************************************************************************)
(* Inputs of the due-date extraction: texts of up to MaxPhrases phrases    *)
(* and the invoice dates a caller may hold                                 *)
(***************************************************************************)
MaxPhrases == 2

DuePhrases ==
    <<  "Due Date: 02/15/2025",
        "Due Date: 02/31/2025",
        "Due Date: 2/5/2025",
        "Due: 03/01/2025",
        "Amount Due: $1,234.56 03/01/2025",
        "Net 60 days",
        "Terms: Net 30",
        "Due 45 days from date",
        "Invoice 1001"  >>

InvoiceDates == {None, "", "01/15/2025", "01/15/25", "2025-01-15", "12/15/2024", "02/30/2025"}

PhraseSeqs == UNION {[1..n -> 1..Len(DuePhrases)] : n \in 1..MaxPhrases}

DueTexts == {Join([k \in 1..Len(q) |-> DuePhrases[q[k]]], " ") : q \in PhraseSeqs}

EpicIdle ==
    /\ ocr = <<>>
    /\ pc = "idle"
    /\ lines = <<>>
    /\ result = ResultInit
    /\ bounds = NoBounds
    /\ cands = NoCands
    /\ processed = {}
    /\ line_items = <<>>
    /\ emitted = <<>>

InitDue ==
    /\ EpicIdle
    /\ vr = VrIdle
    /\ OthersIdle
    /\ \E text \in DueTexts, invoice_date \in InvoiceDates :
          dd = [pc |-> "call", text |-> text, invoice_date |-> invoice_date,
                result |-> Unset, due_date |-> Unset]

SpecDue == InitDue /\ [][NextDue]_vars

(***************************************************************************)
(* vendor_router.py.  The outcome of one subprocess.run is a record: the   *)
(* parser file is missing, the call raises, or the child ends after        *)
(* `seconds` with a return code and its captured stdout                    *)
(***************************************************************************)
\* the keys of VENDOR_PARSERS in insertion order
VENDOR_PARSERS == <<"epic", "patterson", "henry", "exodus", "artisan", "tc">>

InVendorParsers(vendor) == \E k \in 1..Len(VENDOR_PARSERS) : VENDOR_PARSERS[k] = vendor

\* timeout=30 of subprocess.run
timeout == 30

\* the vendor-specific indicators of detect_vendor_from_pdf
Indicators(vendor) ==
    CASE vendor = "epic" -> {"Extracted"}
      [] vendor = "henry" -> {"Henry schein", "Henry Schein"}
      [] vendor = "patterson" -> {"Patterson"}
      [] vendor = "exodus" -> {"Exodus"}
      [] vendor = "artisan" -> {"Artisan"}
      [] vendor = "tc" -> {"TC", "T.C."}
      [] OTHER -> {}

HasIndicator(vendor, stdout) == \E m \in Indicators(vendor) : Contains(stdout, m)

\* "vendor" in result.stdout and "invoice_number" in result.stdout
LooksLikeJson(stdout) == Contains(stdout, "vendor") /\ Contains(stdout, "invoice_number")

\* subprocess.run raised TimeoutExpired
TimedOut(o) == o.kind = "exit" /\ o.seconds > timeout

\* what one iteration of detect_vendor_from_pdf makes of the outcome: the elif chain
\* ends in the JSON test, which every vendor reaches when its own indicator is absent
Verdict(vendor, o) ==
    IF o.kind = "missing" THEN "skipped"
    ELSE IF o.kind = "raise" THEN "raised"
    ELSE IF TimedOut(o) THEN "timeout"
    ELSE IF o.returncode # 0 THEN "nonzero"
    ELSE IF HasIndicator(vendor, o.stdout) \/ LooksLikeJson(o.stdout) THEN "won"
    ELSE "nomarker"

\* run_parser: True exactly when the child ended in time with return code 0
run_parser(o) == o.kind = "exit" /\ ~ TimedOut(o) /\ o.returncode = 0

\* the outputs a parser run may leave on stdout
Stdouts ==
    {"", "Failed to parse invoice", "Extracted 3 line items", "Henry Schein",
     "Patterson Dental", "TC Dental", "vendor: x invoice_number: 7"}

NoOutcome ==
    [kind |-> "none", seconds |-> 0, returncode |-> 0, stdout |-> "", artifact |-> FALSE]

\* the outcomes of one subprocess.run.  `artifact` tells whether the child wrote its
\* JSON file before it ended: the parsers write it inside their own main (epic_parser
\* main and henry_parser parse write it before their last prints), and a child that is
\* killed at the timeout or fails afterwards leaves the file behind
Outcomes ==
    {[kind |-> k, seconds |-> 0, returncode |-> 0, stdout |-> "", artifact |-> FALSE] :
        k \in {"missing", "raise"}}
    \cup {[kind |-> "exit", seconds |-> timeout + 1, returncode |-> 0, stdout |-> "",
           artifact |-> a] : a \in BOOLEAN}
    \cup {[kind |-> "exit", seconds |-> 1, returncode |-> rc, stdout |-> out, artifact |-> a] :
             rc \in {0, 1}, out \in Stdouts, a \in BOOLEAN}

\* what a parser's main can do: one that ends cleanly after writing its artifact has
\* also printed its record or its summary (epic_parser main prints "Extracted N line
\* items" after the dump; the other mains print the record as JSON)
CanDo(vendor, o) ==
    (o.artifact /\ run_parser(o)) => (HasIndicator(vendor, o.stdout) \/ LooksLikeJson(o.stdout))

\* a variant of the loop's `continue` that leaves the loop
AfterFailure_Abort(i) == Len(VENDOR_PARSERS) + 1

\* `continue`, and the fall through the if chain: the loop goes on with the next parser
AfterFailure(i) == i + 1

Exit(v, out, err, code) == [v EXCEPT !.pc = "exit", !.out = out, !.err = err, !.code = code]

\* main up to the vendor hint: the usage and file-not-found exits
RouterStart ==
    /\ vr.pc = "start"
    /\ vr' = IF Len(vr.argv) < 1 THEN Exit(vr, "Usage", "", 1)
             ELSE IF ~ vr.exists THEN Exit(vr, "File not found", "", 1)
             ELSE [vr EXCEPT !.pc = "hint"]
    /\ UNCHANGED <<epicVars, dd, otherVars>>

\* sys.argv[2] if len(sys.argv) > 2 else None
detected_vendor(argv) == IF Len(argv) > 1 THEN argv[2] ELSE None

\* "If vendor was detected from email, try that first"
RunHinted ==
    /\ vr.pc = "hint"
    /\ LET hint == detected_vendor(vr.argv)
       IN  IF hint \notin {None, ""} /\ InVendorParsers(hint)
           THEN \E o \in {x \in Outcomes : CanDo(hint, x)} :
                   LET ran == [vr EXCEPT !.last = o, !.artifact = vr.artifact \/ o.artifact]
                   IN  vr' = IF run_parser(o)
                             THEN [Exit(ran, hint, "", 0) EXCEPT !.hinted = "won"]
                             ELSE [ran EXCEPT !.pc = "detect", !.hinted = "failed"]
           ELSE vr' = [vr EXCEPT !.pc = "detect"]
    /\ UNCHANGED <<epicVars, dd, otherVars>>

\* one iteration of the loop of detect_vendor_from_pdf
TryParser ==
    /\ vr.pc = "detect"
    /\ vr.i <= Len(VENDOR_PARSERS)
    /\ \E o \in {x \in Outcomes : CanDo(VENDOR_PARSERS[vr.i], x)} :
          LET vendor == VENDOR_PARSERS[vr.i]
              verdict == Verdict(vendor, o)
              seen == [vr EXCEPT !.tried = Append(vr.tried, vendor), !.last = o,
                                 !.artifact = vr.artifact \/ o.artifact]
          IN  vr' = IF verdict = "won" THEN Exit(seen, vendor, "", 0)
                    ELSE [seen EXCEPT !.i = AfterFailure(vr.i),
                                      !.failed = vr.failed \cup {verdict}]
    /\ UNCHANGED <<epicVars, dd, otherVars>>

\* detect_vendor_from_pdf returned None
ReportUnknown ==
    /\ vr.pc = "detect"
    /\ vr.i > Len(VENDOR_PARSERS)
    /\ vr' = Exit(vr, "", "unknown", 1)
    /\ UNCHANGED <<epicVars, dd, otherVars>>

NextRouter == RouterStart \/ RunHinted \/ TryParser \/ ReportUnknown

(***************************************************************************)
(* Inputs of the router: the command line, whether the PDF exists, and     *)
(* what the parsers do when run on it                                      *)
(***************************************************************************)
Argvs ==
    {<<>>, <<"invoice.pdf">>}
    \cup {<<"invoice.pdf", hint>> : hint \in {"", "epic", "henry", "dentsply"}}

InitRouter ==
    /\ EpicIdle
    /\ dd = DdIdle
    /\ OthersIdle
    /\ \E argv \in Argvs, exists \in BOOLEAN :
          vr = [pc |-> "start", argv |-> argv, exists |-> exists,
                i |-> 1, tried |-> <<>>, failed |-> {}, hinted |-> "none",
                last |-> NoOutcome, artifact |-> FALSE,
                out |-> "", err |-> "", code |-> -1]

\* every attempt ends (by its timeout at the latest), so the router keeps stepping
SpecRouter == InitRouter /\ [][NextRouter]_vars /\ WF_vars(NextRouter)

(***************************************************************************)
(* email_ingestion_agent.py: detect_vendor_from_email.  A message is the   *)
(* record [From, Subject, body]; body is the text the function gathers     *)
(* from the text/plain parts                                               *)
(***************************************************************************)
\* vendor_keywords in insertion order
vendor_keywords ==
    << [vendor |-> "epic", keywords |-> {"epic", "epic dental", "epicdentallab"}],
       [vendor |-> "patterson", keywords |-> {"patterson", "patterson dental"}],
       [vendor |-> "henry", keywords |-> {"henry", "henry schein"}],
       [vendor |-> "exodus", keywords |-> {"exodus", "exodus dental"}],
       [vendor |-> "artisan", keywords |-> {"artisan", "artisan dental"}],
       [vendor |-> "tc", keywords |-> {"tc dental", "tc dental lab"}] >>

\* any(keyword in text for keyword in keywords)
AnyKeyword(k, text) == \E keyword \in vendor_keywords[k].keywords : Contains(text, keyword)

\* the loop `for vendor, keywords in vendor_keywords.items()` over one lowered text:
\* the first vendor in table order with a keyword in it, or None
KeywordVendor(text) ==
    LET hits == {k \in 1..Len(vendor_keywords) : AnyKeyword(k, text)}
    IN  IF hits = {} THEN None
        ELSE vendor_keywords[CHOOSE k \in hits : \A j \in hits : k <= j].vendor

\* sender, then subject, then body
detect_vendor_from_email(msg) ==
    LET sender == KeywordVendor(Lower(msg.From))
        subject == KeywordVendor(Lower(msg.Subject))
    IN  IF sender # None THEN sender
        ELSE IF subject # None THEN subject
        ELSE KeywordVendor(Lower(msg.body))

DetectVendorFromEmail ==
    /\ em.pc = "call"
    /\ em' = [em EXCEPT !.pc = "returned", !.vendor = detect_vendor_from_email(em.msg)]
    /\ UNCHANGED <<epicVars, dd, vr, cli, pt, qw, runs, sh, orch>>

NextEmail == DetectVendorFromEmail

Senders ==
    {"", "orders@henryschein.com", "Henry Schein <billing@example.com>",
     "billing@pattersondental.com", "Epic Dental Lab <ar@example.com>", "office@example.com"}

Subjects ==
    {"", "Henry Schein invoice 5418", "Invoice from Patterson Dental",
     "Your recipient copy", "Statement"}

Bodies ==
    {"", "Thank you for your order with Henry Schein.",
     "Henry Schein order, shipped with your Patterson items",
     "Please find the invoice attached."}

InitEmail ==
    /\ EpicIdle
    /\ dd = DdIdle
    /\ vr = VrIdle
    /\ cli = CliIdle
    /\ pt = PtIdle
    /\ qw = QwIdle
    /\ runs = FirstRun /\ sh = ShIdle /\ orch = OrchIdle
    /\ \E f \in Senders, s \in Subjects, b \in Bodies :
          em = [pc |-> "call", msg |-> [From |-> f, Subject |-> s, body |-> b],
                vendor |-> Unset]

SpecEmail == InitEmail /\ [][NextEmail]_vars

(***************************************************************************)
(* patterson_invoice_parser_FINAL_WITH_JSON_SAFE.py.  The text is what     *)
(* pdftotext printed.  Of the line items only their presence is kept: it   *)
(* is all the validation of parse_patterson_invoice looks at               *)
(***************************************************************************)
UpperChars ==
    {"A", "B", "C", "D", "E", "F", "G", "H", "I", "J", "K", "L", "M",
     "N", "O", "P", "Q", "R", "S", "T", "U", "V", "W", "X", "Y", "Z"}

\* \w for the ASCII texts of the model
WordChars == UpperChars \cup {LowerChar(c) : c \in UpperChars} \cup DigitChars \cup {"_"}

\* [\d,.]
AmountChars == DigitChars \cup {",", "."}

\* str.title() of a word of capitals
Title(w) == IF w = "" THEN "" ELSE Ch(w, 1) \o Lower(From(w, 2))

\* Invoice\s+(\d+)
InvoiceNumberPattern == Pattern(Lit("Invoice") \o <<Plus(SpaceChars)>>, <<Plus(DigitChars)>>, <<>>)

_extract_invoice_number(text) == Search(InvoiceNumberPattern, text)

\* Date:\s*(\d{4}-\d{2}-\d{2})
InvoiceDatePattern ==
    Pattern(Lit("Date:") \o <<Star(SpaceChars)>>,
            <<One(DigitChars), One(DigitChars), One(DigitChars), One(DigitChars), One({"-"}),
              One(DigitChars), One(DigitChars), One({"-"}), One(DigitChars), One(DigitChars)>>,
            <<>>)

_extract_invoice_date(text) == Search(InvoiceDatePattern, text)

\* Total\s+\$?\s*([\d,.]+)
TotalPattern ==
    Pattern(Lit("Total") \o <<Plus(SpaceChars), Opt({"$"}), Star(SpaceChars)>>,
            <<Plus(AmountChars)>>, <<>>)

\* re.findall(...)[-1].replace(",", ""): a match begins with the letters of Total and
\* holds no other letter, so the last match is the one at the rightmost hit
_extract_total(text) ==
    LET hits == {i \in 1..(Len(text) + 1) : MatchAtoms(TotalPattern, 1, text, i, 0, 0).ok}
    IN  IF hits = {} THEN None
        ELSE Replace(GroupAt(TotalPattern, text, CHOOSE i \in hits : \A j \in hits : j <= i),
                     ",", "")

\* ([A-Z]+)\s+[A-Z]{2}\s+\d{5} with the city, and with the ZIP code, as the group
CityAtoms == <<Plus(UpperChars)>>

StateAtoms == <<Plus(SpaceChars), One(UpperChars), One(UpperChars), Plus(SpaceChars)>>

ZipAtoms == <<One(DigitChars), One(DigitChars), One(DigitChars), One(DigitChars), One(DigitChars)>>

CityPattern == Pattern(<<>>, CityAtoms, StateAtoms \o ZipAtoms)

ZipPattern == Pattern(CityAtoms \o StateAtoms, ZipAtoms, <<>>)

\* \b between positions i - 1 and i of text
WordBoundary(text, i) ==
    (i > 1 /\ Ch(text, i - 1) \in WordChars) # (i <= Len(text) /\ Ch(text, i) \in WordChars)

\* \b([A-Z]+)\s+[A-Z]{2}\s+\d{5}\b matches at position i: each repetition is a whole run
\* of its class, so a start has one match, which ends where the ZIP code ends
CityZipAt(text, i) ==
    LET m == MatchAtoms(ZipPattern, 1, text, i, 0, 0)
    IN  WordBoundary(text, i) /\ m.ok /\ WordBoundary(text, m.ge)

\* PC\s+SMILES\s+([A-Z]+)
PcSmilesPattern ==
    Pattern(Lit("PC") \o <<Plus(SpaceChars)>> \o Lit("SMILES") \o <<Plus(SpaceChars)>>,
            <<Plus(UpperChars)>>, <<>>)

_extract_office_location(text) ==
    LET hits == {i \in 1..Len(text) : CityZipAt(text, i)}
        city == Search(PcSmilesPattern, text)
    IN  IF hits # {}
        THEN Title(GroupAt(CityPattern, text, CHOOSE i \in hits : \A j \in hits : i <= j))
        ELSE IF city # None THEN Title(city)
        ELSE None

\* the row pattern of _extract_line_items; the lazy description matches wherever the
\* greedy one does
LineItemPattern ==
    Pattern(<<One(DigitChars), One(DigitChars), One(DigitChars), One(DigitChars),
              One(DigitChars), One(DigitChars), One(DigitChars), One(DigitChars),
              Plus(SpaceChars)>>,
            <<Plus(UpperChars \cup DigitChars \cup {" ", "/", "(", ")", "-", ".", ","})>>,
            <<Plus(SpaceChars), Plus(DigitChars), One({"."}), Plus(DigitChars),
              Plus(SpaceChars), One(UpperChars), One(UpperChars), Plus(SpaceChars),
              One({"$"}), Plus(AmountChars), Plus(SpaceChars), Plus(AmountChars)>>)

\* bool(_extract_line_items(text))
HasLineItems(text) == Search(LineItemPattern, text) # None

\* the fields parse_patterson_invoice finds missing, in the order it appends them
MissingFields(text) ==
    (IF _extract_invoice_number(text) \in {None, ""} THEN <<"invoice_number">> ELSE <<>>)
    \o (IF _extract_invoice_date(text) \in {None, ""} THEN <<"invoice_date">> ELSE <<>>)
    \o (IF _extract_total(text) \in {None, ""} THEN <<"total">> ELSE <<>>)
    \o (IF ~ HasLineItems(text) THEN <<"line_items">> ELSE <<>>)

\* the dict parse_patterson_invoice returns, without its line_items
PattersonRecord(text) ==
    [vendor |-> "patterson_dental",
     invoice_number |-> _extract_invoice_number(text),
     invoice_date |-> _extract_invoice_date(text),
     total |-> _extract_total(text),
     office_location |-> IF _extract_office_location(text) \in {None, ""} THEN ""
                         ELSE _extract_office_location(text),
     vendor_name |-> "Patterson Dental"]

NoRecord ==
    [vendor |-> None, invoice_number |-> None, invoice_date |-> None, total |-> None,
     office_location |-> None, vendor_name |-> None]

\* parse_patterson_invoice: raises RuntimeError when a required field is missing
parse_patterson_invoice ==
    /\ pt.pc = "call"
    /\ pt' = IF MissingFields(pt.text) # <<>>
             THEN [pt EXCEPT !.pc = "raised", !.missing = MissingFields(pt.text)]
             ELSE [pt EXCEPT !.pc = "returned", !.record = PattersonRecord(pt.text)]
    /\ UNCHANGED <<epicVars, dd, vr, em, cli, qw, runs, sh, orch>>

\* the __main__ block around the call: the record is printed and saved, while the
\* RuntimeError is not caught, so the interpreter prints the traceback and ends with 1
PattersonMain ==
    /\ pt.pc \in {"returned", "raised"}
    /\ pt' = IF pt.pc = "returned"
             THEN [pt EXCEPT !.pc = "exit", !.code = 0, !.artifact = TRUE,
                             !.stdout = "vendor: patterson_dental invoice_number: "
                                            \o pt.record.invoice_number]
             ELSE [pt EXCEPT !.pc = "traceback", !.code = 1]
    /\ UNCHANGED <<epicVars, dd, vr, em, cli, qw, runs, sh, orch>>

NextPatterson == parse_patterson_invoice \/ PattersonMain

\* the lines an invoice text is made of; "" stands for a line that is not there
InvoiceLines == {"", "Invoice 3037868506", "Invoice No. A-3037"}

DateLines == {"", "Date: 2025-07-11", "Date: 07/11/2025"}

AddressLines == {"", "PC SMILES RIDDLE OR 97469", "PC SMILES RIDDLE", "Riddle, OR 97469"}

ItemLines == {"", "73179157 SPRT CLINICAL MONTHLY 1.000 EA $259.00 259.00"}

TotalLines == {"", "Total $259.00", "Sub Total 1,259.00\nTotal $ 1,300.00"}

PattersonTexts ==
    {Join(SelectSeq(<<a, b, c, d, e>>, LAMBDA l : l # ""), "\n") :
        a \in InvoiceLines, b \in DateLines, c \in AddressLines, d \in ItemLines,
        e \in TotalLines}

InitPatterson ==
    /\ EpicIdle
    /\ dd = DdIdle
    /\ vr = VrIdle
    /\ em = EmIdle
    /\ cli = CliIdle
    /\ qw = QwIdle
    /\ runs = FirstRun /\ sh = ShIdle /\ orch = OrchIdle
    /\ \E text \in PattersonTexts :
          pt = [pc |-> "call", text |-> text, record |-> NoRecord, missing |-> <<>>,
                code |-> -1, stdout |-> "", artifact |-> FALSE]

SpecPatterson == InitPatterson /\ [][NextPatterson]_vars

(***************************************************************************)
(* invoice_queue_writer.py.  The queue is the list kept in                 *)
(* invoice_queue.json; an artifact is what json.load reads from a file of  *)
(* output_jsons, a dict whose absent keys are Absent, or text that is not  *)
(* JSON.  The timestamp of an entry is left out                            *)
(***************************************************************************)
Absent == "<absent>"

\* dict.get(key, '')
Get(value) == IF value = Absent THEN "" ELSE value

\* str.replace(old, new)
RECURSIVE ReplaceSub(_, _, _)
ReplaceSub(s, old, new) ==
    IF s = "" THEN ""
    ELSE IF StartsWith(s, old) THEN new \o ReplaceSub(From(s, Len(old) + 1), old, new)
    ELSE Ch(s, 1) \o ReplaceSub(From(s, 2), old, new)

\* os.path.basename
RECURSIVE BaseName(_)
BaseName(path) ==
    IF Contains(path, "/") THEN BaseName(From(path, 2)) ELSE path

Artifact(number, vendor, total, invoice_total) ==
    [kind |-> "dict", invoice_number |-> number, vendor |-> vendor, total |-> total,
     invoice_total |-> invoice_total, office_location |-> "Riddle",
     invoice_date |-> "2025-07-11"]

NotJson == [Artifact(Absent, Absent, Absent, Absent) EXCEPT !.kind = "broken"]

\* the files of output_jsons: two records of invoice 5418, one of 7001, one without an
\* invoice number, and one that is not JSON
JsonFiles ==
    <<"output_jsons/5418_parsed.json", "output_jsons/5418.json", "output_jsons/7001.json",
      "output_jsons/scan.json", "output_jsons/broken.json">>

Disk(path) ==
    CASE path = JsonFiles[1] -> Artifact("5418", "Epic Dental Lab", "75.00", Absent)
      [] path = JsonFiles[2] -> Artifact("5418", "Henry schein", "", "80.00")
      [] path = JsonFiles[3] -> Artifact("7001", "patterson_dental", "259.00", Absent)
      [] path = JsonFiles[4] -> Artifact(Absent, "Henry Schein", Absent, Absent)
      [] OTHER -> NotJson

\* "Normalize vendor name"
NormalizeVendor(vendor) ==
    IF Lower(vendor) \in {"henry schein"} THEN "Henry Schein"
    ELSE IF Lower(vendor) = "epic dental lab" THEN "Epic Dental Lab"
    ELSE vendor

\* queue_entry
QueueEntry(path, data) ==
    [invoice_number |-> Get(data.invoice_number),
     invoice_date |-> Get(data.invoice_date),
     vendor |-> NormalizeVendor(Get(data.vendor)),
     clinic_id |-> Get(data.office_location),
     total |-> IF Get(data.total) # "" THEN Get(data.total) ELSE Get(data.invoice_total),
     status |-> "new",
     json_path |-> path,
     pdf_path |-> "email_invoices/" \o ReplaceSub(BaseName(path), ".json", ".pdf")]

\* existing_invoices is not empty
AlreadyQueued_Never(queue, number) == FALSE

AlreadyQueued(queue, number) == \E k \in 1..Len(queue) : queue[k].invoice_number = number

\* add_invoice_to_queue: the value returned and the queue file afterwards.  A file that
\* cannot be read as JSON raises inside the try and gives False
add_invoice_to_queue(path, queue) ==
    IF Disk(path).kind # "dict" THEN [ret |-> FALSE, queue |-> queue]
    ELSE IF AlreadyQueued(queue, QueueEntry(path, Disk(path)).invoice_number)
    THEN [ret |-> FALSE, queue |-> queue]
    ELSE [ret |-> TRUE, queue |-> Append(queue, QueueEntry(path, Disk(path)))]

\* the record of one call: its file, the queue before and after, the value returned
Call(path, queue) ==
    [path |-> path, before |-> queue, after |-> add_invoice_to_queue(path, queue).queue,
     ret |-> add_invoice_to_queue(path, queue).ret]

\* the loop `for json_file in new_files` over the files in the order given
RECURSIVE AddAll(_, _, _)
AddAll(files, queue, calls) ==
    IF files = <<>> THEN [queue |-> queue, calls |-> calls]
    ELSE AddAll(Tail(files), add_invoice_to_queue(Head(files), queue).queue,
                Append(calls, Call(Head(files), queue)))

\* one call of add_invoice_to_queue on a file of the directory
AddInvoiceToQueue ==
    /\ \E k \in 1..Len(JsonFiles) :
          qw' = [queue |-> add_invoice_to_queue(JsonFiles[k], qw.queue).queue,
                 calls |-> <<Call(JsonFiles[k], qw.queue)>>]
    /\ UNCHANGED <<epicVars, dd, vr, em, cli, pt, runs, sh, orch>>

\* the orders in which glob.glob may list the files fs
Orders(fs) ==
    {o \in [1..Cardinality(fs) -> fs] : \A i, j \in 1..Cardinality(fs) : o[i] = o[j] => i = j}

\* process_new_json_files: the files whose path no entry carries are added one by one
ProcessNewJsonFiles ==
    /\ LET processed_files == {qw.queue[k].json_path : k \in 1..Len(qw.queue)}
           new_files == {JsonFiles[k] : k \in 1..Len(JsonFiles)} \ processed_files
       IN  \E o \in Orders(new_files) :
              qw' = AddAll(o, qw.queue, <<>>)
    /\ UNCHANGED <<epicVars, dd, vr, em, cli, pt, runs, sh, orch>>

NextQueue == AddInvoiceToQueue \/ ProcessNewJsonFiles

\* load_invoice_queue gives [] while there is no queue file
InitQueue ==
    /\ EpicIdle
    /\ dd = DdIdle
    /\ vr = VrIdle
    /\ em = EmIdle
    /\ cli = CliIdle
    /\ pt = PtIdle
    /\ qw = [queue |-> <<>>, calls |-> <<>>]
    /\ runs = FirstRun /\ sh = ShIdle /\ orch = OrchIdle

SpecQueue == InitQueue /\ [][NextQueue]_vars

(***************************************************************************)
(* invoice_queue.json between two processes: invoice_queue_writer.py adds  *)
(* entries, ui_upload_service.py marks them uploaded.  Each reads the      *)
(* whole file, changes its copy and writes the whole file back; a read     *)
(* and a write of the file are the atomic steps.  The timestamps of an     *)
(* entry (timestamp, uploaded_at) are left out                             *)
(***************************************************************************)
\* mark_invoice_uploaded on the loaded queue: the first entry of that number
MarkUploaded(queue, number) ==
    LET ks == {k \in 1..Len(queue) : queue[k].invoice_number = number}
    IN  IF ks = {} THEN queue
        ELSE [queue EXCEPT ![CHOOSE k \in ks : \A m \in ks : k <= m].status = "uploaded"]

\* add_invoice_to_queue up to queue.append: the file is loaded and the entry appended to
\* the copy; a call that returns False (unreadable file, number already queued) writes
\* nothing
WriterLoad ==
    /\ sh.w.pc = "idle"
    /\ \E k \in 1..Len(JsonFiles) :
          LET r == add_invoice_to_queue(JsonFiles[k], sh.file)
          IN  /\ r.ret
              /\ sh' = [sh EXCEPT !.w = [pc |-> "loaded", queue |-> r.queue,
                                         number |-> QueueEntry(JsonFiles[k],
                                                     Disk(JsonFiles[k])).invoice_number]]
    /\ UNCHANGED <<epicVars, dd, vr, em, cli, pt, qw, runs, orch>>

\* save_invoice_queue(queue) of add_invoice_to_queue
WriterSave ==
    /\ sh.w.pc = "loaded"
    /\ sh' = [sh EXCEPT !.file = sh.w.queue,
                        !.added = sh.added \cup {sh.w.number},
                        !.w = [pc |-> "idle", queue |-> <<>>, number |-> ""]]
    /\ UNCHANGED <<epicVars, dd, vr, em, cli, pt, qw, runs, orch>>

\* process_new_invoices: the entries of status 'new' in the file as it is now
UploaderScan ==
    /\ sh.u.pc = "idle"
    /\ LET new_invoices == SelectSeq(sh.file, LAMBDA inv : inv.status = "new")
       IN  /\ new_invoices # <<>>
           /\ sh' = [sh EXCEPT !.u = [pc |-> "upload", queue |-> <<>>, todo |-> new_invoices]]
    /\ UNCHANGED <<epicVars, dd, vr, em, cli, pt, qw, runs, orch>>

\* what the upload service does next once its list is shorter by one entry
UploaderNext(todo) ==
    [pc |-> IF todo = <<>> THEN "idle" ELSE "upload", queue |-> <<>>, todo |-> todo]

\* upload_invoice_to_ui up to the load of mark_invoice_uploaded: when the JSON or the
\* PDF of the entry is missing the entry is left alone, else the file is loaded and the
\* entry marked in the copy
UploaderLoad ==
    /\ sh.u.pc = "upload"
    /\ \E found \in BOOLEAN :
          sh' = [sh EXCEPT !.u =
                    IF found
                    THEN [pc |-> "marked", todo |-> sh.u.todo,
                          queue |-> MarkUploaded(sh.file, Head(sh.u.todo).invoice_number)]
                    ELSE UploaderNext(Tail(sh.u.todo))]
    /\ UNCHANGED <<epicVars, dd, vr, em, cli, pt, qw, runs, orch>>

\* the json.dump of mark_invoice_uploaded
UploaderSave ==
    /\ sh.u.pc = "marked"
    /\ LET number == Head(sh.u.todo).invoice_number
       IN  sh' = [sh EXCEPT !.file = sh.u.queue,
                            !.marked = IF AlreadyQueued(sh.u.queue, number)
                                       THEN sh.marked \cup {number} ELSE sh.marked,
                            !.u = UploaderNext(Tail(sh.u.todo))]
    /\ UNCHANGED <<epicVars, dd, vr, em, cli, pt, qw, runs, orch>>

NextShared == WriterLoad \/ WriterSave \/ UploaderScan \/ UploaderLoad \/ UploaderSave

InitShared ==
    /\ EpicIdle
    /\ dd = DdIdle
    /\ vr = VrIdle
    /\ em = EmIdle
    /\ cli = CliIdle
    /\ pt = PtIdle
    /\ qw = QwIdle
    /\ runs = FirstRun
    /\ sh = ShIdle
    /\ orch = OrchIdle

SpecShared == InitShared /\ [][NextShared]_vars

(***************************************************************************)
(* flowstack_orchestrator.py: main starts the components, one monitor      *)
(* thread per started component restarts it when it has died, and          *)
(* KeyboardInterrupt in the main loop stops what the processes dict holds. *)
(* A process is a pid; NoProcess stands for None                           *)
(***************************************************************************)
MaxSpawns == 5

NoProcess == 0

Components == <<"Email Ingestion Agent", "Invoice Queue Writer", "UI Upload Service">>

\* the names in the processes dict, in insertion order
StartedComponents == SelectSeq(Components, LAMBDA name : orch.processes[name] # NoProcess)

\* run_component has returned a new process for the component
Spawned(o, name) ==
    [o EXCEPT !.alive = o.alive \cup {o.next}, !.next = o.next + 1, !.mon[name] = o.next]

\* one iteration of "Start each component": a script that is missing or a Popen that
\* fails leaves no process and no thread for it
StartComponent ==
    /\ orch.pc = "start"
    /\ \E started \in BOOLEAN :
          LET name == Components[orch.k]
              o == IF started
                   THEN [Spawned(orch, name) EXCEPT !.processes[name] = orch.next]
                   ELSE orch
          IN  orch' = [o EXCEPT !.k = IF orch.k = Len(Components) THEN 1 ELSE orch.k + 1,
                                !.pc = IF orch.k = Len(Components) THEN "run" ELSE "start"]
    /\ UNCHANGED <<epicVars, dd, vr, em, cli, pt, qw, runs, sh>>

\* a component process ends on its own
ComponentExits ==
    /\ orch.pc \in {"start", "run", "stop"}
    /\ \E p \in orch.alive : orch' = [orch EXCEPT !.alive = orch.alive \ {p}]
    /\ UNCHANGED <<epicVars, dd, vr, em, cli, pt, qw, runs, sh>>

\* monitor_process finds its process dead: it rebinds its local `process` to the one
\* run_component returns, or ends when that is None
MonitorRestart ==
    /\ orch.pc \in {"start", "run", "stop"}
    /\ \E name \in DOMAIN orch.mon, restarted \in BOOLEAN :
          /\ orch.mon[name] # NoProcess
          /\ orch.mon[name] \notin orch.alive
          /\ restarted => orch.next <= MaxSpawns
          /\ orch' = IF restarted THEN Spawned(orch, name)
                     ELSE [orch EXCEPT !.mon[name] = NoProcess]
    /\ UNCHANGED <<epicVars, dd, vr, em, cli, pt, qw, runs, sh>>

\* KeyboardInterrupt reaches main inside its try
Interrupt ==
    /\ orch.pc = "run"
    /\ orch' = [orch EXCEPT !.pc = "stop", !.k = 1, !.atInterrupt = orch.alive]
    /\ UNCHANGED <<epicVars, dd, vr, em, cli, pt, qw, runs, sh>>

\* one iteration of "Stop all processes": terminate, wait up to 5 s, else kill
StopComponent ==
    /\ orch.pc = "stop"
    /\ orch.k <= Len(StartedComponents)
    /\ orch' = [orch EXCEPT !.alive = orch.alive \ {orch.processes[StartedComponents[orch.k]]},
                            !.k = orch.k + 1]
    /\ UNCHANGED <<epicVars, dd, vr, em, cli, pt, qw, runs, sh>>

\* main returns after the loop; the daemon threads end with the interpreter
MainReturn ==
    /\ orch.pc = "stop"
    /\ orch.k > Len(StartedComponents)
    /\ orch' = [orch EXCEPT !.pc = "stopped", !.mon = [name \in DOMAIN orch.mon |-> NoProcess]]
    /\ UNCHANGED <<epicVars, dd, vr, em, cli, pt, qw, runs, sh>>

NextOrch ==
    \/ StartComponent
    \/ ComponentExits
    \/ MonitorRestart
    \/ Interrupt
    \/ StopComponent
    \/ MainReturn

InitOrch ==
    /\ EpicIdle
    /\ dd = DdIdle
    /\ vr = VrIdle
    /\ em = EmIdle
    /\ cli = CliIdle
    /\ pt = PtIdle
    /\ qw = QwIdle
    /\ runs = FirstRun
    /\ sh = ShIdle
    /\ orch = [pc |-> "start", k |-> 1, next |-> 1, alive |-> {}, atInterrupt |-> {},
               processes |-> [name \in {Components[j] : j \in 1..Len(Components)} |-> NoProcess],
               mon |-> [name \in {Components[j] : j \in 1..Len(Components)} |-> NoProcess]]

SpecOrch == InitOrch /\ [][NextOrch]_vars

(***************************************************************************)
(* Properties of the line-item reconstructor and of the total              *)
(***************************************************************************)
\* s parses as a non-negative decimal: digits with at most one point
IsDecimalString(s) ==
    /\ \A i \in 1..Len(s) : Ch(s, i) \in DigitChars \cup {"."}
    /\ \E i \in 1..Len(s) : Ch(s, i) \in DigitChars
    /\ Cardinality({i \in 1..Len(s) : Ch(s, i) = "."}) <= 1

SamePair(a, b) == a.product_number = b.product_number /\ a.unit_price = b.unit_price

\* the items whose primary source line is the one at y
ItemsAt(y) == {j \in 1..Len(emitted) : emitted[j].y = y}

\* C1: every LineItem in line_items, whichever pass appended it, has Quantity,
\* unit_price and line_item_total that parse as non-negative decimals and a
\* non-empty product_name
C1_LineItemsWellFormed ==
    \A j \in 1..Len(line_items) :
        /\ IsDecimalString(line_items[j].Quantity)
        /\ IsDecimalString(line_items[j].unit_price)
        /\ IsDecimalString(line_items[j].line_item_total)
        /\ Strip(line_items[j].product_name) # ""

\* C1 is exercised: the run has ended with an item whose quantity was read from a
\* decimal-comma token
C1_CommaQuantityEmitted ==
    /\ pc = "done"
    /\ \E j \in 1..Len(line_items), k \in 1..Len(cands.rel) :
          /\ emitted[j].y = cands.rel[k].y
          /\ SearchLeadingQty(cands.rel[k].text) = "1,00"
          /\ line_items[j].Quantity = "1.00"

\* C2 (as claimed): an item appended by a fallback branch never repeats the
\* (product_number, unit_price) pair of an item already in line_items
C2_FallbackSuppressesSamePair ==
    \A j \in 1..Len(line_items) :
        emitted[j].pass \in {"fallback", "fallback_complete"}
            => \A i \in 1..(j - 1) : ~ SamePair(line_items[i], line_items[j])

\* C3: no two LineItems come from the same source position key with the same
\* product_number and unit_price, and one vertical position is the primary line
\* of at most one LineItem
C3_OneItemPerSourceKey ==
    /\ \A i, j \in 1..Len(line_items) :
          (i < j /\ emitted[i].key = emitted[j].key)
              => ~ SamePair(line_items[i], line_items[j])
    /\ \A k \in 1..Len(lines) : Cardinality(ItemsAt(lines[k].y)) <= 1

\* C3 is exercised: two candidates with identical text at one vertical position
\* have been read and the run ended with a single LineItem
C3_TwinCandidatesOneItem ==
    /\ pc = "done"
    /\ Len(line_items) = 1
    /\ \E k \in 1..Len(lines) :
          LET idx == lines[k].idx
          IN  /\ lines[k].y = emitted[1].y
              /\ Len(idx) = 8
              /\ \A m \in 1..4 : ocr[idx[m]].text = ocr[idx[m + 4]].text
              /\ \A m \in 1..8 : ocr[idx[m]].top = lines[k].y

\* C4 (as claimed): the line 1.00 Teeth LRPD $45.00 in the item table yields
\* exactly one LineItem, and it is Teeth LRPD, quantity 1.00, price 45.00
C4_ExampleLineYieldsItem ==
    pc = "done" =>
        \A k \in 1..Len(cands.rel) :
            cands.rel[k].text = "1.00 Teeth LRPD $45.00" =>
                /\ Cardinality(ItemsAt(cands.rel[k].y)) = 1
                /\ \A j \in ItemsAt(cands.rel[k].y) :
                      line_items[j] = [product_number |-> "Teeth LRPD",
                                       product_name |-> "Teeth LRPD",
                                       Quantity |-> "1.00", unit_price |-> "45.00",
                                       line_item_total |-> "45.00"]

\* C5 (as claimed): once the total has been extracted it is a decimal string
C5_TotalIsDecimal ==
    pc \in {"bounds", "select", "complete", "pair", "fallback", "remaining",
            "uncovered", "done"} => IsDecimalString(result.total)

(***************************************************************************)
(* Properties of the due-date extraction                                   *)
(***************************************************************************)
\* the valid calendar dates that some explicit due-date pattern captures in text
ExplicitDueDates(text) ==
    {g \in {GroupAt(exact_patterns[k], text, i) :
                k \in 1..Len(exact_patterns), i \in 1..Len(text)} :
        g # None /\ StrptimeMDY(g) # NoDate}

\* the day counts of the relative terms that text holds
RelativeDays(text) ==
    {IntOf(g) : g \in {GroupAt(relative_patterns[k], text, i) :
                          k \in 1..Len(relative_patterns), i \in 1..Len(text)} \ {None}}

\* C6 (as claimed): when the text holds an explicit due-date pattern with a valid
\* calendar date, extract_due_date returns such a date, whatever the invoice date
\* and the relative terms
C6_ExplicitDueDateWins ==
    (dd.pc = "returned" /\ ExplicitDueDates(dd.text) # {})
        => dd.result \in ExplicitDueDates(dd.text)

\* C7 (as claimed): without an explicit due date, with a relative term of N days
\* and an invoice date in MM/DD/YYYY or MM/DD/YY form, the due date is the invoice
\* date plus N days
C7_RelativeDueDateComputed ==
    (/\ dd.pc = "returned"
     /\ ExplicitDueDates(dd.text) = {}
     /\ RelativeDays(dd.text) # {}
     /\ dd.invoice_date # None
     /\ (StrptimeMDY(dd.invoice_date) # NoDate \/ StrptimeMDy(dd.invoice_date) # NoDate))
        => LET long == StrptimeMDY(dd.invoice_date)
               inv == IF long # NoDate THEN long ELSE StrptimeMDy(dd.invoice_date)
           IN  dd.result \in {Strftime(AddDays(inv, n)) : n \in RelativeDays(dd.text)}

\* C8 (as claimed): a due date that extract_due_date returns is zero-padded
\* MM/DD/YYYY; the only other outcome is None
C8_DueDateZeroPadded ==
    dd.pc = "returned" =>
        \/ dd.result = None
        \/ FullMatch(<<One(DigitChars), One(DigitChars), One({"/"}), One(DigitChars),
                       One(DigitChars), One({"/"}), One(DigitChars), One(DigitChars),
                       One(DigitChars), One(DigitChars)>>, dd.result)

(***************************************************************************)
(* Properties of the vendor router                                         *)
(***************************************************************************)
\* C9 (as claimed): a vendor is reported (exit code 0) only if its parser's last run
\* ended within the time bound with return code 0 and printed that vendor's
\* indicator
C9_ReportedVendorHasMarker ==
    (vr.pc = "exit" /\ vr.code = 0)
        => /\ vr.last.kind = "exit"
           /\ vr.last.seconds <= timeout
           /\ vr.last.returncode = 0
           /\ HasIndicator(vr.out, vr.last.stdout)

\* the state part of C10: the parsers are visited in table order without a gap; a
\* reported vendor is the first one that won; "unknown" comes only after the whole
\* table; a failed hint has led into detection
C10_FailuresAreLocal ==
    /\ vr.pc \in {"detect", "exit"} =>
          vr.tried = SubSeq(VENDOR_PARSERS, 1, Len(vr.tried))
    /\ (vr.pc = "exit" /\ vr.code = 0 /\ vr.hinted # "won") =>
          /\ vr.tried # <<>>
          /\ vr.out = vr.tried[Len(vr.tried)]
          /\ vr.failed \subseteq {"skipped", "raised", "timeout", "nonzero", "nomarker"}
    /\ (vr.pc = "exit" /\ vr.err = "unknown") =>
          /\ vr.tried = VENDOR_PARSERS
          /\ vr.code = 1
    /\ (vr.pc = "exit" /\ vr.hinted = "failed") =>
          (vr.err = "unknown" \/ (vr.code = 0 /\ vr.tried # <<>>))

\* C10: a parser that times out, raises or exits non-zero fails alone: the later
\* parsers are still tried in order up to the first winner, a failed hint does not
\* prevent detection, and the router always ends, with a vendor or with "unknown"
C10_DetectionGoesOnAndEnds ==
    /\ [](C10_FailuresAreLocal)
    /\ <>(vr.pc = "exit")
    /\ []((vr.pc = "exit" /\ Len(vr.argv) >= 1 /\ vr.exists)
            => \/ (vr.code = 0 /\ InVendorParsers(vr.out))
               \/ (vr.code = 1 /\ vr.err = "unknown"))

\* C10 is exercised: the hinted parser failed, parsers timed out, raised and exited
\* non-zero, and a later parser was still reported
C10_WinnerAfterFailures ==
    /\ vr.pc = "exit"
    /\ vr.code = 0
    /\ vr.hinted = "failed"
    /\ {"timeout", "raised", "nonzero"} \subseteq vr.failed
    /\ Len(vr.tried) >= 4

\* C11: when the router ends with "unknown", its exit code is non-zero, it has printed
\* no vendor slug, and none of the rulesets it attempted has left an InvoiceRecord
\* artifact for the document
C11_UnknownLeavesNoArtifact ==
    (vr.pc = "exit" /\ vr.err = "unknown")
        => (vr.code # 0 /\ vr.out = "" /\ ~ vr.artifact)

\* the text detect_vendor_from_email examines holds "Henry Schein"
MentionsHenrySchein(msg) ==
    \/ Contains(msg.From, "Henry Schein")
    \/ Contains(msg.Subject, "Henry Schein")
    \/ Contains(msg.body, "Henry Schein")

\* C12: vendor detection returns the slug "henry" whenever the text it examined holds
\* "Henry Schein", wherever in the text
C12_HenryScheinGivesHenry ==
    (em.pc = "returned" /\ MentionsHenrySchein(em.msg)) => em.vendor = "henry"

\* C13: the parser CLI ends with code 0 only when extraction succeeded and the JSON
\* artifact was written; when the input file does not exist or extract_invoice_data
\* returned None it ends non-zero and has written no artifact
C13_ExitCodeTellsSuccess ==
    cli.pc = "exit" =>
        /\ (cli.code = 0 => (pc = "done" /\ cli.artifact))
        /\ ((~ cli.exists \/ pc = "failed") => (cli.code # 0 /\ ~ cli.artifact))

\* the header fields of a Patterson text that the extraction helpers do not find
HeadersNotFound(text) ==
    {h \in {"invoice_number", "invoice_date", "office_location"} :
        CASE h = "invoice_number" -> _extract_invoice_number(text) = None
          [] h = "invoice_date" -> _extract_invoice_date(text) = None
          [] h = "office_location" -> _extract_office_location(text) = None}

\* C14: when a header field (invoice number, date, office location) cannot be found,
\* the ruleset still returns a record, with that field the empty string; the missing
\* header never aborts the record and no error propagates uncaught
C14_MissingHeaderLeftEmpty ==
    \A h \in HeadersNotFound(pt.text) :
        /\ pt.pc \notin {"raised", "traceback"}
        /\ pt.pc \in {"returned", "exit"} => pt.record[h] = ""

\* C16: queue writes are idempotent by invoice number: after any sequence of
\* add_invoice_to_queue calls the queue holds at most one entry per invoice_number, and
\* a call whose invoice_number is already queued returns False and leaves the queue as
\* it was
C16_OneEntryPerInvoiceNumber ==
    /\ \A i, j \in 1..Len(qw.queue) :
          qw.queue[i].invoice_number = qw.queue[j].invoice_number => i = j
    /\ \A c \in 1..Len(qw.calls) :
          LET call == qw.calls[c]
          IN  (/\ Disk(call.path).kind = "dict"
               /\ \E k \in 1..Len(call.before) :
                     call.before[k].invoice_number = Get(Disk(call.path).invoice_number))
              => (~ call.ret /\ call.after = call.before)

\* a file of an invoice number that another file had already queued was offered, was
\* refused and left the queue alone
C16_SecondFileOfInvoiceRefused ==
    /\ Len(qw.queue) >= 2
    /\ \E c \in 1..Len(qw.calls) :
          /\ qw.calls[c].path = JsonFiles[2]
          /\ ~ qw.calls[c].ret
          /\ \E k \in 1..Len(qw.calls[c].before) :
                /\ qw.calls[c].before[k].invoice_number = "5418"
                /\ qw.calls[c].before[k].json_path = JsonFiles[1]

Retained(o) == {i \in 1..Len(o) : Strip(o[i].text) # "" /\ o[i].conf >= CONF_DISCARD}

\* the clusters that hold token i
ClustersOf(ls, i) == {k \in 1..Len(ls) : \E n \in 1..Len(ls[k].idx) : ls[k].idx[n] = i}

\* the token that opened cluster k: the first one it holds
Opener(ls, k) == ls[k].idx[1]

\* C17: clustering is first-fit in token order: every retained token lies in exactly
\* one cluster and no dropped token in any; a cluster is keyed at the position of the
\* token that opened it; and a token lies within the tolerance of its cluster's key and
\* of no cluster that was opened earlier than its own and before the token came
C17_FirstFitClustering ==
    pc = "header" =>
        /\ \A i \in 1..Len(ocr) :
              Cardinality(ClustersOf(lines, i)) = IF i \in Retained(ocr) THEN 1 ELSE 0
        /\ \A k \in 1..Len(lines) :
              /\ lines[k].y = ocr[Opener(lines, k)].top
              /\ \A n \in 1..Len(lines[k].idx) :
                    LET i == lines[k].idx[n]
                    IN  /\ n > 1 => lines[k].idx[n - 1] < i
                        /\ Abs(ocr[i].top - lines[k].y) <= Y_TOLERANCE
                        /\ \A j \in 1..Len(lines) :
                              (Opener(lines, j) < Opener(lines, k) /\ Opener(lines, j) < i)
                                  => Abs(ocr[i].top - lines[j].y) > Y_TOLERANCE

\* a token within the tolerance of two clusters went to the one opened first, although
\* the other one was there as well, and a token below the threshold was dropped
C17_TokenBetweenTwoClusters ==
    /\ pc = "header"
    /\ \E i \in Retained(ocr), k, j \in 1..Len(lines) :
          /\ k # j
          /\ i \in {lines[k].idx[n] : n \in 1..Len(lines[k].idx)}
          /\ Opener(lines, k) < Opener(lines, j)
          /\ Opener(lines, j) < i
          /\ Abs(ocr[i].top - lines[j].y) <= Y_TOLERANCE
    /\ \E i \in 1..Len(ocr) : i \notin Retained(ocr)

\* C18: in the clustering output the tokens of each line are in ascending horizontal
\* position, and the lines are in ascending order of their vertical key
C18_LinesOrderedLeftToRight ==
    pc = "header" =>
        /\ \A k \in 1..Len(lines) : \A n \in 1..(Len(lines[k].idx) - 1) :
              ocr[lines[k].idx[n]].left <= ocr[lines[k].idx[n + 1]].left
        /\ \A k \in 1..(Len(lines) - 1) : lines[k].y < lines[k + 1].y

\* the claim's validation of an invoice-number token: after a leading '#' is stripped,
\* digits only (so no separator) and four characters or more
ValidInvoiceNumber(word) ==
    LET digits == IF StartsWith(word, "#") THEN From(word, 2) ELSE word
    IN  IsDigitStr(digits) /\ Len(digits) >= 4

\* C19: a non-empty invoice_number is digits only, four characters or more and without
\* separators, the leading '#' being stripped before the length is judged, and it is
\* the first token in OCR order that passes this validation
C19_InvoiceNumberValidated ==
    (pc = "total" /\ result.invoice_number # "") =>
        /\ IsDigitStr(result.invoice_number)
        /\ Len(result.invoice_number) >= 4
        /\ \E i \in 1..Len(ocr) :
              /\ ValidInvoiceNumber(Strip(ocr[i].text))
              /\ result.invoice_number = Replace(Strip(ocr[i].text), "#", "")
              /\ \A j \in 1..(i - 1) : ~ ValidInvoiceNumber(Strip(ocr[j].text))

\* the tokens that have the shape of a date
DateTokens(o) == {i \in 1..Len(o) : MatchDate(Strip(o[i].text))}

\* C20: the first validated match wins for the invoice date: invoice_date is the first
\* date-shaped token in OCR order, whatever date tokens follow it and wherever the
\* invoice-number token sits
C20_FirstDateTokenWins ==
    (pc = "total" /\ DateTokens(ocr) # {}) =>
        result.invoice_date =
            Strip(ocr[CHOOSE i \in DateTokens(ocr) : \A j \in DateTokens(ocr) : i <= j].text)

(***************************************************************************)
(* Properties of the total, the table bounds and the item passes           *)
(***************************************************************************)
\* a word the marker loop accepts as an amount
IsAmountToken(word) == MatchDollar(word) \/ (MatchAmount(word) /\ FloatOK(word))

\* the marker lines, without "extended", that hold an amount token
MarkerLinesWithAmount(o, ls) ==
    {k \in 1..Len(ls) :
        /\ IsTotalMarkerLine(LineText(o, ls[k].idx))
        /\ \E j \in 1..Len(ls[k].idx) : IsAmountToken(o[ls[k].idx[j]].text)}

\* the first amount token of line k, its "$" removed
FirstAmountToken(o, ls, k) ==
    LET js == {j \in 1..Len(ls[k].idx) : IsAmountToken(o[ls[k].idx[j]].text)}
    IN  Replace(o[ls[k].idx[CHOOSE j \in js : \A m \in js : j <= m]].text, "$", "")

\* C21: when some line holds a total, amount due or balance due marker, no "extended"
\* and an amount token, the total is the first amount token of the first such line in
\* ascending vertical order
C21_TotalFromFirstMarkerLine ==
    (pc = "bounds" /\ MarkerLinesWithAmount(ocr, lines) # {}) =>
        LET ks == MarkerLinesWithAmount(ocr, lines)
        IN  result.total = FirstAmountToken(ocr, lines, CHOOSE k \in ks : \A m \in ks : k <= m)

\* the amount tokens of line k whose value lies in the plausible invoice range
InRangeTokens(o, ls, k) ==
    {j \in 1..Len(ls[k].idx) :
        /\ IsAmountToken(o[ls[k].idx[j]].text)
        /\ InInvoiceRange(Replace(o[ls[k].idx[j]].text, "$", ""))}

\* C22: when no marker line yields an amount, the total is an amount token of the
\* lowest line that holds an amount token within the plausible invoice range, and one
\* within that range; with no such token the total is the default
C22_TotalFromLowestInRange ==
    (pc = "bounds" /\ MarkerLinesWithAmount(ocr, lines) = {}) =>
        LET ks == {k \in 1..Len(lines) : InRangeTokens(ocr, lines, k) # {}}
        IN  IF ks = {} THEN result.total = "0.00"
            ELSE LET low == CHOOSE k \in ks : \A m \in ks : k >= m
                 IN  \E j \in InRangeTokens(ocr, lines, low) :
                        result.total = Replace(ocr[lines[low].idx[j]].text, "$", "")

\* C23: every line a line item is derived from lies inside the item-table region: at
\* or below the start line and, when an end marker line was found, strictly above it
C23_ItemsInsideTable ==
    (pc = "done" /\ bounds.start # NoY) =>
        \A k \in 1..Len(emitted) :
            /\ bounds.start <= emitted[k].y
            /\ bounds.end # NoY => emitted[k].y < bounds.end

\* the price lines a quantity line may pair with
EligibleFor(q) == {p \in 1..Len(cands.ponly) : Eligible(q, cands.ponly[p])}

\* the item built in the pairing pass from the quantity line q and the price line p
PairedItemOf(q, p) ==
    {k \in 1..Len(emitted) :
        /\ emitted[k].pass = "paired"
        /\ emitted[k].key = Str(q.y) \o "_" \o Str(cands.ponly[p].y)}

\* C24: a quantity-only line is paired only with an eligible price-only line (within 200
\* px, and sharing a word or within 50 px) that is nearest among the eligible ones; a
\* quantity-only line without an eligible price-only line is not paired
C24_PairedWithNearestEligible ==
    pc \in {"fallback", "remaining", "uncovered", "done"} =>
        \A j \in 1..Len(cands.qonly) :
            LET q == cands.qonly[j]
            IN  \A p \in 1..Len(cands.ponly) :
                    PairedItemOf(q, p) # {} =>
                        /\ p \in EligibleFor(q)
                        /\ \A e \in EligibleFor(q) :
                              Abs(cands.ponly[p].y - q.y) <= Abs(cands.ponly[e].y - q.y)

\* a quantity line was paired with the nearer of two eligible price lines although the
\* farther one comes first in price_only_lines
C24_NearerOfTwoEligible ==
    /\ pc = "done"
    /\ \E j \in 1..Len(cands.qonly) :
          LET q == cands.qonly[j]
          IN  \E p \in EligibleFor(q), e \in EligibleFor(q) :
                  /\ e < p
                  /\ Abs(cands.ponly[p].y - q.y) < Abs(cands.ponly[e].y - q.y)
                  /\ PairedItemOf(q, p) # {}

\* what the chain of one pass makes of a product text
NamedBy(table, product_text) ==
    LET canon == Canonical(table, product_text)
    IN  <<canon.number, canon.name>>

\* C25: the passes share one canonicalization table: the (product_number, product_name)
\* an item got for its resolved product text is what the chain of every pass gives for
\* that text
C25_OneTableInEveryPass ==
    \A k \in 1..Len(emitted) :
        \A table \in {CompleteTable, PairedTable, FallbackTable, RemainingTable, UncoveredTable} :
            <<line_items[k].product_number, line_items[k].product_name>>
                = NamedBy(table, emitted[k].text)

\* the vertical positions of the candidate lines an item was built from: its own line
\* and, for a paired item, the price line of the pair
SourceLines(e) ==
    {e.y} \cup (IF e.pass = "paired"
                THEN {cands.ponly[p].y : p \in {p \in 1..Len(cands.ponly) :
                          e.key = Str(e.y) \o "_" \o Str(cands.ponly[p].y)}}
                ELSE {})

\* C26: a line consumed as a Complete line or as either side of a pair yields no item
\* in the fallback, remaining-price-only or uncovered-price-line pass
C26_ConsumedLineNotReprocessed ==
    \A j \in 1..Len(emitted), k \in 1..Len(emitted) :
        (/\ emitted[j].pass \in {"complete", "paired"}
         /\ emitted[k].pass \in {"fallback_complete", "fallback", "remaining", "uncovered"})
            => emitted[k].y \notin SourceLines(emitted[j])

\* the relevant line at vertical position y
RelevantAt(y) == cands.rel[CHOOSE k \in 1..Len(cands.rel) : cands.rel[k].y = y]

\* the relevant lines below y that carry a $-amount
PricedBelow(y) ==
    {k \in 1..Len(cands.rel) : cands.rel[k].y > y /\ SearchDollar(cands.rel[k].text) # None}

\* C27: an item of the fallback pass carries the price printed on its own line when
\* there is one, otherwise the price of the nearest line below it that carries a $-amount
C27_FallbackPriceOwnOrNextBelow ==
    \A k \in 1..Len(emitted) :
        emitted[k].pass \in {"fallback_complete", "fallback"} =>
            LET y == emitted[k].y
                own == SearchDollar(RelevantAt(y).text)
                below == PricedBelow(y)
            IN  IF own # None THEN line_items[k].unit_price = own
                ELSE below # {} =>
                        LET next == CHOOSE n \in below :
                                        \A m \in below : cands.rel[n].y <= cands.rel[m].y
                        IN  line_items[k].unit_price = SearchDollar(cands.rel[next].text)

\* C28: an item built by pairing carries the quantity extracted from its quantity-only
\* line and the price of its price-only line
C28_PairedQuantityAndPrice ==
    \A k \in 1..Len(emitted) :
        emitted[k].pass = "paired" =>
            \A j \in 1..Len(cands.qonly), p \in 1..Len(cands.ponly) :
                (/\ cands.qonly[j].y = emitted[k].y
                 /\ k \in PairedItemOf(cands.qonly[j], p))
                    => /\ line_items[k].Quantity = cands.qonly[j].quantity
                       /\ line_items[k].unit_price = cands.ponly[p].price

\* C29: the queue writer and the upload service lose no update of each other: an entry
\* the writer has saved stays in invoice_queue.json, and an entry the upload service has
\* saved as 'uploaded' keeps that status
C29_NoLostUpdate ==
    /\ \A number \in sh.added : AlreadyQueued(sh.file, number)
    /\ \A number \in sh.marked :
          \A k \in 1..Len(sh.file) :
              sh.file[k].invoice_number = number => sh.file[k].status = "uploaded"

\* C30: once the orchestrator has handled KeyboardInterrupt, no component process that
\* was alive when the interrupt arrived is still running, a replacement started by
\* monitor_process included
C30_InterruptStopsEveryComponent ==
    orch.pc = "stopped" => orch.atInterrupt \cap orch.alive = {}

====
